---- MODULE Spec2Model ----
(***************************************************************************)
(* Model of the reactive session mirror of antigravity-client:             *)
(*   - src/src/reactive/apply.ts : schema-driven application of a          *)
(*     MessageDiff to a message tree (applyMessageDiff and helpers);       *)
(*   - src/src/cascade.ts        : Cascade.listen() (the reconnecting      *)
(*     subscription loop) and Cascade.emitEvents() (event derivation).     *)
(*                                                                         *)
(* Values of the message tree are tagged records, so that `undefined' is a *)
(* value like any other:                                                   *)
(*   Undef                      undefined                                  *)
(*   [t |-> "enum", v |-> s]    enum value (by enum name)                  *)
(*   [t |-> "str",  v |-> seq]  string (sequence of characters)            *)
(*   [t |-> "bool", v |-> b]    boolean                                    *)
(*   [t |-> "msg",  T, f]       message of type T, f maps local names      *)
(*   [t |-> "oneof", case, value]  oneof group ({case, value})             *)
(*   [t |-> "list", v |-> seq]  repeated field (JS array, 0-based indices) *)
(*   [t |-> "map", keys, vals]  map field (keys in insertion order)        *)
(***************************************************************************)
EXTENDS Integers, Sequences, FiniteSets, TLC

Undef == [t |-> "undef"]

Enum(s) == [t |-> "enum", v |-> s]

Str(s) == [t |-> "str", v |-> s]

Bool(b) == [t |-> "bool", v |-> b]

EmptyList == [t |-> "list", v |-> <<>>]

EmptyMap == [t |-> "map", keys |-> <<>>, vals |-> <<>>]

NoCase == [t |-> "oneof", case |-> "", value |-> Undef]

(***************************************************************************)
(* JS truthiness of a value (`!subObj', `!step', `a || b').                *)
(***************************************************************************)
Truthy(x) ==
    CASE x.t = "undef" -> FALSE
      [] x.t = "str" -> x.v # <<>>
      [] x.t = "bool" -> x.v
      [] OTHER -> TRUE

(***************************************************************************)
(* Schema: the FieldInfo lists of the generated message types.             *)
(* Field numbers 2 (CascadeState.trajectory), 2 (Trajectory.steps),        *)
(* 4 (Step.status), 28 (Step.runCommand), 23 and 15 (RunCommand) are the   *)
(* ones the repository's log analyser reads; the others are symbolic.      *)
(***************************************************************************)
FScalar(no, name, dflt) ==
    [no |-> no, localName |-> name, kind |-> "scalar", repeated |-> FALSE,
     oneof |-> "", T |-> "", dflt |-> dflt]

FMessage(no, name, T) ==
    [no |-> no, localName |-> name, kind |-> "message", repeated |-> FALSE,
     oneof |-> "", T |-> T, dflt |-> Undef]

FOneofMessage(no, name, group, T) ==
    [no |-> no, localName |-> name, kind |-> "message", repeated |-> FALSE,
     oneof |-> group, T |-> T, dflt |-> Undef]

FOneofScalar(no, name, group) ==
    [no |-> no, localName |-> name, kind |-> "scalar", repeated |-> FALSE,
     oneof |-> group, T |-> "", dflt |-> Undef]

FRepeatedMessage(no, name, T) ==
    [no |-> no, localName |-> name, kind |-> "message", repeated |-> TRUE,
     oneof |-> "", T |-> T, dflt |-> EmptyList]

FRepeatedScalar(no, name) ==
    [no |-> no, localName |-> name, kind |-> "scalar", repeated |-> TRUE,
     oneof |-> "", T |-> "", dflt |-> EmptyList]

FMap(no, name, vkind, T) ==
    [no |-> no, localName |-> name, kind |-> "map", repeated |-> FALSE,
     oneof |-> "", T |-> T, dflt |-> EmptyMap, vkind |-> vkind]

Schema ==
    [CascadeState |->
        << FMessage(2, "trajectory", "Trajectory"),
           FScalar(3, "status", Enum("UNSPECIFIED")) >>,
     Trajectory |->
        << FScalar(1, "trajectoryId", Str(<<>>)),
           FRepeatedMessage(2, "steps", "Step") >>,
     Step |->
        << FScalar(4, "status", Enum("UNSPECIFIED")),
           FOneofMessage(20, "plannerResponse", "step", "PlannerResponse"),
           FOneofMessage(28, "runCommand", "step", "RunCommand"),
           FOneofMessage(30, "viewFile", "step", "ViewFile"),
           FMessage(56, "requestedInteraction", "RequestedInteraction") >>,
     RunCommand |->
        << FScalar(23, "commandLine", Str(<<>>)),
           FScalar(15, "shouldAutoRun", Bool(FALSE)),
           FScalar(4, "stdout", Str(<<>>)),
           FScalar(5, "stderr", Str(<<>>)) >>,
     PlannerResponse |->
        << FScalar(1, "response", Str(<<>>)),
           FScalar(3, "thinking", Str(<<>>)),
           FScalar(8, "modifiedResponse", Str(<<>>)) >>,
     ViewFile |->
        << FScalar(1, "absolutePathUri", Str(<<>>)),
           FMessage(10, "filePermissionRequest", "FilePermissionSpec") >>,
     FilePermissionSpec |->
        << FScalar(1, "absolutePathUri", Str(<<>>)),
           FScalar(2, "isDirectory", Bool(FALSE)) >>,
     RequestedInteraction |->
        << FOneofMessage(2, "runCommand", "interaction", "Empty"),
           FOneofMessage(3, "filePermission", "interaction", "FilePermissionSpec"),
           FOneofMessage(4, "openBrowserUrl", "interaction", "Empty"),
           FOneofMessage(9, "mcp", "interaction", "Empty") >>,
     Empty |-> << >>,
     Rec |->
        << FScalar(1, "name", Str(<<>>)),
           FOneofScalar(2, "a", "choice"),
           FOneofMessage(3, "b", "choice", "Leaf"),
           FRepeatedMessage(4, "items", "Leaf"),
           FRepeatedScalar(5, "tags"),
           FMap(6, "attrs", "scalar", ""),
           FMap(7, "leaves", "message", "Leaf"),
           FMessage(8, "child", "Leaf") >>,
     Leaf |->
        << FScalar(1, "x", Str(<<>>)),
           FScalar(2, "y", Str(<<>>)) >>]

NoField == [no |-> -1]

(* fields.find(fieldNumber) on a list of field infos *)
FindIn(fields, no) ==
    LET hits == { i \in 1..Len(fields) : fields[i].no = no }
    IN IF hits = {} THEN NoField ELSE fields[CHOOSE i \in hits : TRUE]

(* type.fields.find(fieldNumber) *)
FindField(T, no) == FindIn(Schema[T], no)

(* the property of the message object that holds the field: the oneof     *)
(* group for a member of a oneof, else the field's local name              *)
PropertyName(fi) == IF fi.oneof # "" THEN fi.oneof ELSE fi.localName

(* what the constructor leaves in a property: scalars hold their default,  *)
(* repeated fields are empty, message fields are undefined, oneof groups   *)
(* have no case                                                            *)
InitialValue(fi) == IF fi.oneof # "" THEN NoCase ELSE fi.dflt

FieldNames(fields) == { PropertyName(fields[i]) : i \in 1..Len(fields) }

FieldOfProperty(fields, n) ==
    fields[CHOOSE j \in 1..Len(fields) : PropertyName(fields[j]) = n]

NewOf(T, fields) ==
    [t |-> "msg", T |-> T,
     f |-> [n \in FieldNames(fields) |-> InitialValue(FieldOfProperty(fields, n))]]

(* new T() *)
New(T) == NewOf(T, Schema[T])

(***************************************************************************)
(* Diff messages (reactive_component_pb):                                  *)
(*   MessageDiff   a sequence of FieldDiff (diff.fieldDiffs)               *)
(*   FieldDiff     [fieldNumber, case, value], case one of updateSingular, *)
(*                 updateRepeated, updateMap, clear, "" (no case set)      *)
(*   SingularValue [case, value]; NoSV is a SingularValue that is not      *)
(*                 there (`undefined', read past the end of updateValues)  *)
(*   RepeatedDiff  [hasNewLength, newLength, updateIndices, updateValues]  *)
(*   MapDiff       a sequence of [mapKey, case, value] (md.mapKeyDiffs)    *)
(* The result of an application is [v, ok]: the target after the call and  *)
(* whether the call returned normally (FALSE: a TypeError was thrown; v    *)
(* then holds what had been mutated in place before the throw).            *)
(***************************************************************************)
NoSV == [case |-> "undefined", value |-> Undef]

Ok(v) == [v |-> v, ok |-> TRUE]

Thrown(v) == [v |-> v, ok |-> FALSE]

RECURSIVE ApplyFieldDiffsFrom(_, _, _, _)
RECURSIVE ApplyPairsFrom(_, _, _, _)
RECURSIVE ApplyKeyDiffsFrom(_, _, _, _)

(* arr[idx] read: undefined outside the array *)
ArrGet(arr, idx) == IF idx + 1 \in 1..Len(arr) THEN arr[idx + 1] ELSE Undef

(* arr[idx] = v: writing past the end extends the array with holes *)
ArrSet(arr, idx, v) ==
    IF idx + 1 \in 1..Len(arr) THEN [arr EXCEPT ![idx + 1] = v]
    ELSE arr \o [k \in 1..(idx - Len(arr)) |-> Undef] \o <<v>>

(* the length change of applyRepeatedDiff: splice or push(undefined) *)
Resize(arr, n) ==
    IF Len(arr) > n THEN SubSeq(arr, 1, n)
    ELSE arr \o [k \in 1..(n - Len(arr)) |-> Undef]

(* an assignment that leaves the case of a oneof group that has one *)
AssignFieldKeepCase(target, field, value) ==
    IF field.oneof # ""
    THEN [target EXCEPT !.f[field.oneof] =
             [t |-> "oneof", case |-> IF @.case # "" THEN @.case ELSE field.localName,
              value |-> value]]
    ELSE [target EXCEPT !.f[field.localName] = value]

(* the assignment that ends applyFieldDiff *)
AssignField(target, field, value) ==
    IF field.oneof # ""
    THEN [target EXCEPT !.f[field.oneof] =
             [t |-> "oneof", case |-> field.localName, value |-> value]]
    ELSE [target EXCEPT !.f[field.localName] = value]

(* existingValue of applyFieldDiff *)
ExistingValue(target, field) ==
    IF field.oneof # ""
    THEN LET currentOneof == target.f[field.oneof]
         IN IF currentOneof.case = field.localName THEN currentOneof.value ELSE Undef
    ELSE target.f[field.localName]

(* a message value always starts from a new message *)
ExtractSingularValueFresh(sv, field, existingValue) ==
    IF sv = NoSV THEN Thrown(Undef)
    ELSE IF sv.case = "" THEN Ok(Undef)
    ELSE IF sv.case # "messageValue" THEN Ok(sv.value)
    ELSE IF field.kind # "message" THEN Ok(Undef)
    ELSE ApplyFieldDiffsFrom(New(field.T), sv.value, field.T, 1)

(* extractSingularValue(sv, field, existingValue) *)
ExtractSingularValue(sv, field, existingValue) ==
    IF sv = NoSV THEN Thrown(Undef)
    ELSE IF sv.case = "" THEN Ok(Undef)
    ELSE IF sv.case # "messageValue" THEN Ok(sv.value)
    ELSE IF field.kind # "message" THEN Ok(Undef)
    ELSE ApplyFieldDiffsFrom(IF Truthy(existingValue) THEN existingValue
                             ELSE New(field.T),
                             sv.value, field.T, 1)

(* arr[idx] = <the value extracted>, r being the outcome of the extraction, *)
(* and on to the next pair                                                  *)
StorePair(arr, rd, field, i, idx, existingItem, r) ==
    IF r.ok THEN ApplyPairsFrom(ArrSet(arr, idx, r.v), rd, field, i + 1)
    ELSE IF Truthy(existingItem) THEN Thrown(ArrSet(arr, idx, r.v))
    ELSE Thrown(arr)

(* the loop over updateIndices of applyRepeatedDiff, from pair i on *)
ApplyPairsFrom(arr, rd, field, i) ==
    IF i > Len(rd.updateIndices) THEN Ok(arr)
    ELSE LET idx == rd.updateIndices[i]
             val == IF i <= Len(rd.updateValues) THEN rd.updateValues[i] ELSE NoSV
             existingItem == IF field.kind = "message" THEN ArrGet(arr, idx) ELSE Undef
         IN StorePair(arr, rd, field, i, idx, existingItem,
                      ExtractSingularValue(val, field, existingItem))

(* target[localName] is the array the loop of applyRepeatedDiff worked on *)
WithArray(target, localName, r) ==
    [v |-> [target EXCEPT !.f[localName] = [t |-> "list", v |-> r.v]], ok |-> r.ok]

(* applyRepeatedDiff(target, localName, rd, field) *)
ApplyRepeatedDiff(target, localName, rd, field) ==
    LET arr0 == IF target.f[localName].t = "list" THEN target.f[localName].v ELSE <<>>
        arr1 == IF rd.hasNewLength THEN Resize(arr0, rd.newLength) ELSE arr0
    IN WithArray(target, localName, ApplyPairsFrom(arr1, rd, field, 1))

(* position of key in the map's key list, 0 when absent *)
KeyPos(keys, key) ==
    IF \E i \in 1..Len(keys) : keys[i] = key
    THEN CHOOSE i \in 1..Len(keys) : keys[i] = key ELSE 0

RemoveAt(s, i) == SubSeq(s, 1, i - 1) \o SubSeq(s, i + 1, Len(s))

InsertAt(s, p, x) == SubSeq(s, 1, p - 1) \o << x >> \o SubSeq(s, p, Len(s))

Digits == << "0", "1", "2", "3", "4", "5", "6", "7", "8", "9" >>

IsDigit(c) == \E d \in 1..10 : Digits[d] = c

(* the number a string of digits denotes *)
RECURSIVE NumberOf(_)
NumberOf(s) ==
    IF s = << >> THEN 0
    ELSE NumberOf(SubSeq(s, 1, Len(s) - 1)) * 10
         + ((CHOOSE d \in 1..10 : Digits[d] = s[Len(s)]) - 1)

(* the first Len(s) - 5 digits and the last five digits of a string of at  *)
(* most ten digits, as numbers                                             *)
High(s) == IF Len(s) <= 5 THEN 0 ELSE NumberOf(SubSeq(s, 1, Len(s) - 5))

Low(s) == IF Len(s) <= 5 THEN NumberOf(s) ELSE NumberOf(SubSeq(s, Len(s) - 4, Len(s)))

(* a < b for the numbers two strings of at most ten digits denote *)
NumberLess(a, b) == High(a) < High(b) \/ (High(a) = High(b) /\ Low(a) < Low(b))

(* the property key is an array index: a canonical numeric string below    *)
(* 2^32 - 1                                                                *)
IsArrayIndex(key) ==
    /\ key.t = "str"
    /\ key.v # << >>
    /\ Len(key.v) <= 10
    /\ \A k \in 1..Len(key.v) : IsDigit(key.v[k])
    /\ (Len(key.v) = 1 \/ key.v[1] # "0")
    /\ NumberLess(key.v, << "4", "2", "9", "4", "9", "6", "7", "2", "9", "5" >>)

(* where a property created on the plain object `map' comes in the order   *)
(* of its own keys: array indices first, ascending, then the other keys in *)
(* the order they were created                                             *)
NewKeyPos(keys, key) ==
    IF IsArrayIndex(key)
    THEN 1 + Cardinality({ k \in 1..Len(keys) :
                             /\ IsArrayIndex(keys[k])
                             /\ NumberLess(keys[k].v, key.v) })
    ELSE Len(keys) + 1

(* map[key] = <the value extracted>, r being the outcome of the extraction, *)
(* and on to the next key diff                                              *)
StoreKey(map, md, field, i, key, pos, existingVal, r) ==
    LET set == IF pos = 0
               THEN [map EXCEPT !.keys = InsertAt(@, NewKeyPos(map.keys, key), key),
                                !.vals = InsertAt(@, NewKeyPos(map.keys, key), r.v)]
               ELSE [map EXCEPT !.vals[pos] = r.v]
    IN IF r.ok THEN ApplyKeyDiffsFrom(set, md, field, i + 1)
       ELSE IF Truthy(existingVal) THEN Thrown(set) ELSE Thrown(map)

(* the loop over md.mapKeyDiffs of applyMapDiff, from key diff i on *)
ApplyKeyDiffsFrom(map, md, field, i) ==
    IF i > Len(md) THEN Ok(map)
    ELSE LET keyDiff == md[i]
             key == keyDiff.mapKey.value
             pos == KeyPos(map.keys, key)
             existingVal == IF pos = 0 THEN Undef ELSE map.vals[pos]
             valueFieldInfo == [kind |-> field.vkind, T |-> field.T]
         IN IF keyDiff.mapKey = NoSV THEN ApplyKeyDiffsFrom(map, md, field, i + 1)
            ELSE IF keyDiff.case = "updateSingular"
            THEN StoreKey(map, md, field, i, key, pos, existingVal,
                          ExtractSingularValue(keyDiff.value, valueFieldInfo, existingVal))
            ELSE IF keyDiff.case = "clear" /\ keyDiff.value /\ pos # 0
            THEN ApplyKeyDiffsFrom([map EXCEPT !.keys = RemoveAt(@, pos),
                                               !.vals = RemoveAt(@, pos)], md, field, i + 1)
            ELSE ApplyKeyDiffsFrom(map, md, field, i + 1)

(* target[localName] is the map the loop of applyMapDiff worked on *)
WithMap(target, localName, r) ==
    [v |-> [target EXCEPT !.f[localName] = r.v], ok |-> r.ok]

(* an applyMapDiff that builds the map anew from the key diffs *)
ApplyMapDiffFresh(target, localName, md, field) ==
    IF field.kind # "map" THEN Ok(target)
    ELSE WithMap(target, localName, ApplyKeyDiffsFrom(EmptyMap, md, field, 1))

(* applyMapDiff(target, localName, md, field) *)
ApplyMapDiff(target, localName, md, field) ==
    IF field.kind # "map" THEN Ok(target)
    ELSE WithMap(target, localName,
                 ApplyKeyDiffsFrom(IF Truthy(target.f[localName]) THEN target.f[localName]
                                   ELSE EmptyMap,
                                   md, field, 1))

(* the assignment that ends applyFieldDiff after updateSingular, r being   *)
(* the outcome of extractSingularValue                                      *)
AssignExtracted(target, field, existingValue, r) ==
    IF r.ok \/ Truthy(existingValue)
    THEN [v |-> AssignField(target, field, r.v), ok |-> r.ok]
    ELSE Thrown(target)

(* an applyFieldDiff whose clear does not look at its flag *)
ApplyToFieldClearAlways(target, fd, field, existingValue) ==
    CASE fd.case = "updateSingular" ->
           AssignExtracted(target, field, existingValue,
                           ExtractSingularValue(fd.value, field, existingValue))
      [] fd.case = "updateRepeated" ->
           ApplyRepeatedDiff(target, field.localName, fd.value, field)
      [] fd.case = "updateMap" ->
           ApplyMapDiff(target, field.localName, fd.value, field)
      [] fd.case = "clear" ->
           Ok(AssignField(target, field, Undef))
      [] OTHER -> Ok(AssignField(target, field, Undef))

(* applyFieldDiff from `const localName = field.localName' on *)
ApplyToField(target, fd, field, existingValue) ==
    CASE fd.case = "updateSingular" ->
           AssignExtracted(target, field, existingValue,
                           ExtractSingularValue(fd.value, field, existingValue))
      [] fd.case = "updateRepeated" ->
           ApplyRepeatedDiff(target, field.localName, fd.value, field)
      [] fd.case = "updateMap" ->
           ApplyMapDiff(target, field.localName, fd.value, field)
      [] fd.case = "clear" ->
           IF fd.value THEN Ok(AssignField(target, field, Undef)) ELSE Ok(target)
      [] OTHER -> Ok(AssignField(target, field, Undef))

(* a field number that is not in the schema makes the call fail *)
ApplyFoundFieldStrict(target, fd, field) ==
    IF field = NoField THEN Thrown(target)
    ELSE ApplyToField(target, fd, field, ExistingValue(target, field))

(* applyFieldDiff once the field is looked up *)
ApplyFoundField(target, fd, field) ==
    IF field = NoField THEN Ok(target)
    ELSE ApplyToField(target, fd, field, ExistingValue(target, field))

(* applyFieldDiff(target, fd, type) *)
ApplyFieldDiff(target, fd, T) ==
    ApplyFoundField(target, fd, FindField(T, fd.fieldNumber))

(* the for loop of applyMessageDiff after field diff i, r being the        *)
(* outcome of applyFieldDiff for it                                         *)
NextFieldDiff(r, diff, T, i) ==
    IF r.ok THEN ApplyFieldDiffsFrom(r.v, diff, T, i + 1) ELSE r

(* the loop over diff.fieldDiffs of applyMessageDiff, from field diff i on *)
ApplyFieldDiffsFrom(target, diff, T, i) ==
    IF i > Len(diff) THEN Ok(target)
    ELSE NextFieldDiff(ApplyFieldDiff(target, diff[i], T), diff, T, i)

(* applyMessageDiff that starts from a new message *)
ApplyMessageDiffFresh(target, diff, T) == ApplyFieldDiffsFrom(New(T), diff, T, 1)

(* applyMessageDiff(target, diff, type) *)
ApplyMessageDiff(target, diff, T) == ApplyFieldDiffsFrom(target, diff, T, 1)

(***************************************************************************)
(* types.ts: raw enum value -> SDK status name.                            *)
(***************************************************************************)
(* BUSY is reported under the name of RUNNING *)
toRunStatusFolded(raw) ==
    CASE raw = Enum("IDLE") -> "idle"
      [] raw = Enum("RUNNING") -> "running"
      [] raw = Enum("CANCELING") -> "canceling"
      [] raw = Enum("BUSY") -> "running"
      [] OTHER -> "unspecified"

toRunStatus(raw) ==
    CASE raw = Enum("UNSPECIFIED") -> "unspecified"
      [] raw = Enum("IDLE") -> "idle"
      [] raw = Enum("RUNNING") -> "running"
      [] raw = Enum("CANCELING") -> "canceling"
      [] raw = Enum("BUSY") -> "busy"
      [] OTHER -> "unspecified"

toStepStatus(raw) ==
    CASE raw = Enum("UNSPECIFIED") -> "unspecified"
      [] raw = Enum("GENERATING") -> "generating"
      [] raw = Enum("QUEUED") -> "queued"
      [] raw = Enum("PENDING") -> "pending"
      [] raw = Enum("RUNNING") -> "running"
      [] raw = Enum("WAITING") -> "waiting"
      [] raw = Enum("DONE") -> "done"
      [] raw = Enum("INVALID") -> "invalid"
      [] raw = Enum("CLEARED") -> "cleared"
      [] raw = Enum("CANCELED") -> "canceled"
      [] raw = Enum("ERROR") -> "error"
      [] raw = Enum("INTERRUPTED") -> "interrupted"
      [] OTHER -> "unspecified"

(***************************************************************************)
(* Cascade: event derivation.  The tracking fields travel through the      *)
(* emit* operators in one record `a':                                      *)
(*   lastStatus, lcs (_lastCascadeStatus), lsc (_lastStepCount),           *)
(*   ssm (_stepStatusMap), ei (emittedInteractions), txt, thk, out, err    *)
(*   (lastEmittedText / Thinking / Stdout / Stderr), ev (events emitted    *)
(*   so far, in emission order).                                           *)
(***************************************************************************)
Emit(a, e) == [a EXCEPT !.ev = Append(@, e)]

(* Map.get / Map.set and Record<number, string> read / write *)
MapGet(m, i) == IF i \in DOMAIN m THEN m[i] ELSE Undef

MapSet(m, i, v) == [k \in DOMAIN m \cup {i} |-> IF k = i THEN v ELSE m[k]]

RecGet(r, i) == IF i \in DOMAIN r THEN r[i] ELSE <<>>

(* `x || ""' on a string field *)
StrOf(x) == IF x.t = "str" THEN x.v ELSE <<>>

(* a?.b on a message-valued a *)
Field(m, name) ==
    IF m.t = "msg" /\ name \in DOMAIN m.f THEN m.f[name] ELSE Undef

(* step.step?.case and step.step?.value *)
StepCase(step) == IF Field(step, "step").t = "oneof" THEN step.f.step.case ELSE ""

StepValue(step) == IF Field(step, "step").t = "oneof" THEN step.f.step.value ELSE Undef

(* step.requestedInteraction?.interaction?.case *)
InteractionCase(step) ==
    LET ri == Field(step, "requestedInteraction")
    IN IF Field(ri, "interaction").t = "oneof" THEN ri.f.interaction.case ELSE ""

(* this.state.trajectory?.steps *)
StepsOf(st) == Field(Field(st, "trajectory"), "steps")

(* emitStatusChange that never records the status it reported *)
emitStatusChangeNoRecord(st, a) ==
    LET currentStatus == st.f.status
        a1 == IF currentStatus = Enum("IDLE") /\ a.lastStatus # Enum("IDLE")
              THEN Emit(a, [type |-> "done"]) ELSE a
        a2 == [a1 EXCEPT !.lastStatus = currentStatus]
    IN IF currentStatus # a2.lcs
       THEN Emit(a2, [type |-> "status_change", status |-> toRunStatus(currentStatus),
                      previousStatus |-> toRunStatus(a2.lcs)])
       ELSE a2

emitStatusChange(st, a) ==
    LET currentStatus == st.f.status
        a1 == IF currentStatus = Enum("IDLE") /\ a.lastStatus # Enum("IDLE")
              THEN Emit(a, [type |-> "done"]) ELSE a
        a2 == [a1 EXCEPT !.lastStatus = currentStatus]
    IN IF currentStatus # a2.lcs
       THEN Emit([a2 EXCEPT !.lcs = currentStatus],
                 [type |-> "status_change", status |-> toRunStatus(currentStatus),
                  previousStatus |-> toRunStatus(a2.lcs)])
       ELSE a2

RECURSIVE NewStepsFrom(_, _, _)
NewStepsFrom(steps, a, i) ==
    IF i >= Len(steps) THEN a
    ELSE LET step == steps[i + 1]
         IN IF ~Truthy(step) THEN NewStepsFrom(steps, a, i + 1)
            ELSE NewStepsFrom(steps,
                    Emit([a EXCEPT !.ssm = MapSet(@, i, step.f.status)],
                         [type |-> "step:new", stepIndex |-> i,
                          status |-> toStepStatus(step.f.status)]),
                    i + 1)

(* the status changes loop without the refresh of the cache *)
RECURSIVE StepUpdatesFromNoRefresh(_, _, _)
StepUpdatesFromNoRefresh(steps, a, index) ==
    IF index >= Len(steps) THEN a
    ELSE LET step == steps[index + 1]
             prevStatus == MapGet(a.ssm, index)
             a1 == IF prevStatus # Undef /\ prevStatus # step.f.status
                   THEN Emit(a, [type |-> "step:update", stepIndex |-> index,
                                 status |-> toStepStatus(step.f.status),
                                 previousStatus |-> toStepStatus(prevStatus)])
                   ELSE a
         IN IF ~Truthy(step) THEN StepUpdatesFromNoRefresh(steps, a, index + 1)
            ELSE StepUpdatesFromNoRefresh(steps, a1, index + 1)

RECURSIVE StepUpdatesFrom(_, _, _)
StepUpdatesFrom(steps, a, index) ==
    IF index >= Len(steps) THEN a
    ELSE LET step == steps[index + 1]
             prevStatus == MapGet(a.ssm, index)
             a1 == IF prevStatus # Undef /\ prevStatus # step.f.status
                   THEN Emit(a, [type |-> "step:update", stepIndex |-> index,
                                 status |-> toStepStatus(step.f.status),
                                 previousStatus |-> toStepStatus(prevStatus)])
                   ELSE a
         IN IF ~Truthy(step) THEN StepUpdatesFrom(steps, a, index + 1)
            ELSE StepUpdatesFrom(steps,
                    [a1 EXCEPT !.ssm = MapSet(@, index, step.f.status)], index + 1)

(* emitStepEvents that leaves the tracked step count as it is *)
emitStepEventsNoCount(steps, a) ==
    StepUpdatesFrom(steps, IF Len(steps) > a.lsc THEN NewStepsFrom(steps, a, a.lsc) ELSE a, 0)

emitStepEvents(steps, a) ==
    LET a1 == IF Len(steps) > a.lsc
              THEN [NewStepsFrom(steps, a, a.lsc) EXCEPT !.lsc = Len(steps)]
              ELSE a
    IN StepUpdatesFrom(steps, a1, 0)

(* the `type' of the request buildApprovalRequest returns for a case *)
ApprovalType(interactionCase) ==
    CASE interactionCase = "runCommand" -> "run_command"
      [] interactionCase = "filePermission" -> "file_permission"
      [] interactionCase = "openBrowserUrl" -> "open_browser_url"
      [] interactionCase \in {"executeBrowserJavascript", "captureBrowserScreenshot",
                              "clickBrowserPixel", "browserAction", "openBrowserSetup",
                              "confirmBrowserSetup"} -> "browser_action"
      [] interactionCase = "sendCommandInput" -> "send_command_input"
      [] interactionCase = "mcp" -> "mcp"
      [] OTHER -> "other"

(* isInteractiveState that holds for every status *)
IsInteractiveStateAny(status) == TRUE

(* isInteractiveState of emitApprovalRequests *)
IsInteractiveState(status) ==
    status \in {Enum("PENDING"), Enum("RUNNING"), Enum("WAITING")}

(* (step.step?.value as any)?.filePermissionRequest *)
InlineFilePermission(step) == Field(StepValue(step), "filePermissionRequest")

(* the body of the forEach without the test of emittedInteractions *)
ApprovalForStepNoDedupe(step, index, a) ==
    LET status == step.f.status
        interactionCase == InteractionCase(step)
        inlineFilePermission == InlineFilePermission(step)
        a1 == Emit([a EXCEPT !.ei = @ \cup {index}],
                   [type |-> "interaction", stepIndex |-> index,
                    autoRun |-> FALSE, needsApproval |-> TRUE])
    IN IF ~IsInteractiveState(status) THEN a
       ELSE IF interactionCase = "" /\ ~Truthy(inlineFilePermission) THEN a
       ELSE Emit(a1, [type |-> "approval:needed", stepIndex |-> index,
                      kind |-> ApprovalType(interactionCase),
                      interactionCase |-> interactionCase,
                      autoRun |-> FALSE, needsApproval |-> TRUE])

(* the body of the forEach of emitApprovalRequests, for one step *)
ApprovalForStep(step, index, a) ==
    LET status == step.f.status
        interactionCase == InteractionCase(step)
        inlineFilePermission == InlineFilePermission(step)
        runCommand == IF StepCase(step) = "runCommand" THEN StepValue(step) ELSE Undef
        autoRun == IF Truthy(runCommand) THEN Truthy(runCommand.f.shouldAutoRun) ELSE FALSE
        needsApproval == IF status = Enum("WAITING") THEN TRUE ELSE ~autoRun
        a1 == Emit([a EXCEPT !.ei = @ \cup {index}],
                   [type |-> "interaction", stepIndex |-> index,
                    autoRun |-> autoRun, needsApproval |-> needsApproval])
    IN IF ~IsInteractiveState(status) THEN a
       ELSE IF interactionCase = "" /\ ~Truthy(inlineFilePermission) THEN a
       ELSE IF index \in a.ei THEN a
       ELSE IF interactionCase # ""
       THEN Emit(a1, [type |-> "approval:needed", stepIndex |-> index,
                      kind |-> ApprovalType(interactionCase),
                      interactionCase |-> interactionCase,
                      autoRun |-> IF interactionCase = "runCommand" THEN autoRun ELSE FALSE,
                      needsApproval |-> IF interactionCase = "runCommand"
                                        THEN needsApproval ELSE TRUE])
       ELSE Emit(a1, [type |-> "approval:needed", stepIndex |-> index,
                      kind |-> "file_permission", interactionCase |-> "",
                      autoRun |-> FALSE, needsApproval |-> TRUE])

RECURSIVE ApprovalsFrom(_, _, _)
ApprovalsFrom(steps, a, index) ==
    IF index >= Len(steps) THEN a
    ELSE IF ~Truthy(steps[index + 1]) THEN ApprovalsFrom(steps, a, index + 1)
    ELSE ApprovalsFrom(steps, ApprovalForStep(steps[index + 1], index, a), index + 1)

emitApprovalRequests(steps, a) == ApprovalsFrom(steps, a, 0)

(* substring that returns the whole string *)
SubstringAll(s, n) == s

(* s.substring(n) *)
Substring(s, n) == SubSeq(s, n + 1, Len(s))

(* the body of the forEach of emitCommandOutputDeltas that does not record *)
(* what it emitted                                                         *)
CommandOutputForStepNoRecord(step, index, a) ==
    LET runCommandPlain == IF StepCase(step) = "runCommand" THEN StepValue(step) ELSE Undef
        stdout == StrOf(Field(runCommandPlain, "stdout"))
        stderr == StrOf(Field(runCommandPlain, "stderr"))
        lastStdout == RecGet(a.out, index)
        a1 == IF Len(stdout) > Len(lastStdout)
              THEN Emit(a, [type |-> "command_output", text |-> stdout,
                            delta |-> Substring(stdout, Len(lastStdout)),
                            outputType |-> "stdout", stepIndex |-> index])
              ELSE a
        lastStderr == RecGet(a1.err, index)
    IN IF ~Truthy(runCommandPlain) THEN a
       ELSE IF Len(stderr) > Len(lastStderr)
       THEN Emit(a1, [type |-> "command_output", text |-> stderr,
                      delta |-> Substring(stderr, Len(lastStderr)),
                      outputType |-> "stderr", stepIndex |-> index])
       ELSE a1

(* the body of the forEach of emitCommandOutputDeltas, for one step *)
CommandOutputForStep(step, index, a) ==
    LET runCommandPlain == IF StepCase(step) = "runCommand" THEN StepValue(step) ELSE Undef
        stdout == StrOf(Field(runCommandPlain, "stdout"))
        stderr == StrOf(Field(runCommandPlain, "stderr"))
        lastStdout == RecGet(a.out, index)
        a1 == IF Len(stdout) > Len(lastStdout)
              THEN [Emit(a, [type |-> "command_output", text |-> stdout,
                             delta |-> Substring(stdout, Len(lastStdout)),
                             outputType |-> "stdout", stepIndex |-> index])
                    EXCEPT !.out = MapSet(@, index, stdout)]
              ELSE a
        lastStderr == RecGet(a1.err, index)
    IN IF ~Truthy(runCommandPlain) THEN a
       ELSE IF Len(stderr) > Len(lastStderr)
       THEN [Emit(a1, [type |-> "command_output", text |-> stderr,
                       delta |-> Substring(stderr, Len(lastStderr)),
                       outputType |-> "stderr", stepIndex |-> index])
             EXCEPT !.err = MapSet(@, index, stderr)]
       ELSE a1

RECURSIVE CommandOutputsFrom(_, _, _)
CommandOutputsFrom(steps, a, index) ==
    IF index >= Len(steps) THEN a
    ELSE IF ~Truthy(steps[index + 1]) THEN CommandOutputsFrom(steps, a, index + 1)
    ELSE CommandOutputsFrom(steps, CommandOutputForStep(steps[index + 1], index, a), index + 1)

emitCommandOutputDeltas(steps, a) == CommandOutputsFrom(steps, a, 0)

(* a body of the forEach of emitTextDeltas that emits and records the     *)
(* response text whenever it differs from the tracked one                 *)
TextForStepOnChange(step, index, a) ==
    LET planner == StepValue(step)
        modifiedResponse == StrOf(Field(planner, "modifiedResponse"))
        response == IF modifiedResponse # <<>> THEN modifiedResponse
                    ELSE StrOf(Field(planner, "response"))
        thinking == StrOf(Field(planner, "thinking"))
        lastText == RecGet(a.txt, index)
        a1 == IF response # lastText
              THEN [Emit(Emit(a, [type |-> "text", text |-> response,
                                  delta |-> Substring(response, Len(lastText)),
                                  stepIndex |-> index]),
                         [type |-> "text:delta", fullText |-> response,
                          delta |-> Substring(response, Len(lastText)),
                          stepIndex |-> index])
                    EXCEPT !.txt = MapSet(@, index, response)]
              ELSE a
        lastThinking == RecGet(a1.thk, index)
    IN IF StepCase(step) # "plannerResponse" THEN a
       ELSE IF Len(thinking) > Len(lastThinking)
       THEN [Emit(Emit(a1, [type |-> "thinking", text |-> thinking,
                            delta |-> Substring(thinking, Len(lastThinking)),
                            stepIndex |-> index]),
                  [type |-> "thinking:delta", fullText |-> thinking,
                   delta |-> Substring(thinking, Len(lastThinking)),
                   stepIndex |-> index])
             EXCEPT !.thk = MapSet(@, index, thinking)]
       ELSE a1

(* the body of the forEach of emitTextDeltas, for one step *)
TextForStep(step, index, a) ==
    LET planner == StepValue(step)
        modifiedResponse == StrOf(Field(planner, "modifiedResponse"))
        response == IF modifiedResponse # <<>> THEN modifiedResponse
                    ELSE StrOf(Field(planner, "response"))
        thinking == StrOf(Field(planner, "thinking"))
        lastText == RecGet(a.txt, index)
        a1 == IF Len(response) > Len(lastText)
              THEN [Emit(Emit(a, [type |-> "text", text |-> response,
                                  delta |-> Substring(response, Len(lastText)),
                                  stepIndex |-> index]),
                         [type |-> "text:delta", fullText |-> response,
                          delta |-> Substring(response, Len(lastText)),
                          stepIndex |-> index])
                    EXCEPT !.txt = MapSet(@, index, response)]
              ELSE a
        lastThinking == RecGet(a1.thk, index)
    IN IF StepCase(step) # "plannerResponse" THEN a
       ELSE IF Len(thinking) > Len(lastThinking)
       THEN [Emit(Emit(a1, [type |-> "thinking", text |-> thinking,
                            delta |-> Substring(thinking, Len(lastThinking)),
                            stepIndex |-> index]),
                  [type |-> "thinking:delta", fullText |-> thinking,
                   delta |-> Substring(thinking, Len(lastThinking)),
                   stepIndex |-> index])
             EXCEPT !.thk = MapSet(@, index, thinking)]
       ELSE a1

RECURSIVE TextsFrom(_, _, _)
TextsFrom(steps, a, index) ==
    IF index >= Len(steps) THEN a
    ELSE IF ~Truthy(steps[index + 1]) THEN TextsFrom(steps, a, index + 1)
    ELSE TextsFrom(steps, TextForStep(steps[index + 1], index, a), index + 1)

emitTextDeltas(steps, a) == TextsFrom(steps, a, 0)

(* emitEvents with the growth deltas derived before the approvals *)
emitEventsDeltasFirst(st, a) ==
    LET a1 == emitStatusChange(st, Emit(a, [type |-> "update"]))
        steps == StepsOf(st)
    IN IF ~Truthy(steps) THEN a1
       ELSE emitApprovalRequests(steps.v,
              emitTextDeltas(steps.v,
                emitCommandOutputDeltas(steps.v,
                  emitStepEvents(steps.v, a1))))

(* Cascade.emitEvents() *)
emitEvents(st, a) ==
    LET a1 == emitStatusChange(st, Emit(a, [type |-> "update"]))
        steps == StepsOf(st)
    IN IF ~Truthy(steps) THEN a1
       ELSE emitTextDeltas(steps.v,
              emitCommandOutputDeltas(steps.v,
                emitApprovalRequests(steps.v,
                  emitStepEvents(steps.v, a1))))

(***************************************************************************)
(* Diff constructors (what the server puts on the wire).                   *)
(***************************************************************************)
EnumSV(s) == [case |-> "enumValue", value |-> Enum(s)]

StrSV(s) == [case |-> "stringValue", value |-> Str(s)]

BoolSV(b) == [case |-> "boolValue", value |-> Bool(b)]

MsgSV(d) == [case |-> "messageValue", value |-> d]

SetField(no, sv) == [fieldNumber |-> no, case |-> "updateSingular", value |-> sv]

RepeatedField(no, rd) == [fieldNumber |-> no, case |-> "updateRepeated", value |-> rd]

(* CascadeState.status := s *)
RunStatusDiff(s) == << SetField(3, EnumSV(s)) >>

(* CascadeState.trajectory.steps: a RepeatedDiff that sets the length to   *)
(* n (no new length when n < 0) and patches the steps idxs with the Step   *)
(* diffs sds                                                               *)
StepsDiff(n, idxs, sds) ==
    << SetField(2, MsgSV(<< RepeatedField(2,
          [hasNewLength |-> n >= 0, newLength |-> n, updateIndices |-> idxs,
           updateValues |-> [k \in 1..Len(sds) |-> MsgSV(sds[k])]]) >>)) >>

(* Step diffs *)
StepStatus(s) == << SetField(4, EnumSV(s)) >>

StepStdout(out) == << SetField(28, MsgSV(<< SetField(4, StrSV(out)) >>)) >>

StepStderr(out) == << SetField(28, MsgSV(<< SetField(5, StrSV(out)) >>)) >>

StepAutoRun(b) == << SetField(28, MsgSV(<< SetField(15, BoolSV(b)) >>)) >>

StepResponse(txt) == << SetField(20, MsgSV(<< SetField(1, StrSV(txt)) >>)) >>

StepThinking(txt) == << SetField(20, MsgSV(<< SetField(3, StrSV(txt)) >>)) >>

StepModifiedResponse(txt) == << SetField(20, MsgSV(<< SetField(8, StrSV(txt)) >>)) >>

StepInteraction(no) == << SetField(56, MsgSV(<< SetField(no, MsgSV(<< >>)) >>)) >>

StepInlinePermission(path) ==
    << SetField(30, MsgSV(<< SetField(10, MsgSV(<< SetField(1, StrSV(path)) >>)) >>)) >>

(***************************************************************************)
(* Stream failures: the ConnectError the for await loop can throw.         *)
(* code 1 = canceled, 2 = unknown, 5 = not_found, 14 = unavailable.        *)
(***************************************************************************)
NoErr == [code |-> 0, canceledInMessage |-> FALSE]

StreamErrors ==
    { [code |-> 1, canceledInMessage |-> FALSE],
      [code |-> 2, canceledInMessage |-> TRUE],
      [code |-> 2, canceledInMessage |-> FALSE],
      [code |-> 5, canceledInMessage |-> FALSE],
      [code |-> 14, canceledInMessage |-> FALSE] }

IsTerminalNotFoundOnly(e) == e.code = 5

(* the condition of the `break' in the catch block of listen() *)
IsTerminal(e) == e.code = 1 \/ (e.code = 2 /\ e.canceledInMessage)

(* applyMessageDiff was not called directly *)
NoneApplied == [diff |-> << >>, was |-> "", ok |-> TRUE]

(* no approval request is held for a step index *)
NoRequest == [type |-> "none"]

(* no pure conversion was called yet *)
NoneEvaluated == [fn |-> "none"]

(* getHistory() was not called yet *)
NoneFetched == [called |-> FALSE, trajectory |-> Undef]

(* the instance fields of a Cascade as the constructor leaves them: the    *)
(* tracking fields as the record the emit* operators work on, and the      *)
(* instance with its own projection                                        *)
NewTracking ==
    [lastStatus |-> Enum("UNSPECIFIED"), lcs |-> Enum("UNSPECIFIED"), lsc |-> 0,
     ssm |-> << >>, ei |-> {}, txt |-> << >>, thk |-> << >>, out |-> << >>,
     err |-> << >>, ev |-> << >>]

NewCascade == [state |-> New("CascadeState"), tr |-> NewTracking, emitted |-> << >>]

(***************************************************************************)
(* Bounds                                                                  *)
(***************************************************************************)
MaxSteps == 2

MaxAttempt == 2

MaxQueue == 2

MaxText == 2

MaxLen == 2

(***************************************************************************)
(* State.  The fields of Cascade keep their names (the leading underscore  *)
(* of _lastStepCount, _stepStatusMap and _lastCascadeStatus is dropped).   *)
(*   pc        where the listen() loop stands: "idle" (no loop), "stream"  *)
(*             (awaiting the next message of an open subscription),        *)
(*             "backoff" (awaiting the retry timer), "crashed" (an         *)
(*             exception escaped from listen())                            *)
(*   errListener  whether the consumer has registered an 'error' listener  *)
(*   inflight  messages the transport holds for the open subscription      *)
(*   emitted   the events emitted by the last step, in emission order      *)
(*   act, err  the last step taken and the stream failure it handled       *)
(*   sent, lastSeq  numbering of the messages sent / the last one consumed; *)
(*             the numbering starts over when the transport holds none     *)
(*   approvalCount  per step index, the approval:needed events so far      *)
(*   newCount  per step index, the step:new events so far                  *)
(*   requests  per step index, the approval request the consumer holds     *)
(*             (the last one emitted for the index), NoRequest when none   *)
(*   calls     the handleCascadeUserInteraction calls issued by the last   *)
(*             step, each with the step index of the request whose         *)
(*             approve() or deny() issued it                               *)
(*   streamed  per channel and step index, the deltas emitted so far, one  *)
(*             after the other                                             *)
(*   applied   the diff of the last direct call of applyMessageDiff, the   *)
(*             case the oneof group of the target held before the call and *)
(*             whether the call returned normally                          *)
(*   other     a second Cascade instance of the same process: its          *)
(*             projection, its tracking fields and the events its last     *)
(*             step emitted                                                *)
(*   evaluated the last call of one of the pure conversions of types.ts:   *)
(*             the function, its argument and what it returned             *)
(*   fetched   the response of the last getHistory() call                  *)
(*   timer     the delay in milliseconds of the pending retry timer of    *)
(*             listen(), 0 while none is pending                           *)
(***************************************************************************)
VARIABLES state, isListening, lastEmittedText, lastEmittedThinking,
          lastEmittedStdout, lastEmittedStderr, emittedInteractions,
          lastStatus, lastStepCount, stepStatusMap, lastCascadeStatus,
          pc, attempt, errListener, inflight, emitted, act, err, sent, lastSeq,
          approvalCount, newCount, requests, calls, streamed, applied,
          other, evaluated, fetched, timer

vars == << state, isListening, lastEmittedText, lastEmittedThinking,
           lastEmittedStdout, lastEmittedStderr, emittedInteractions,
           lastStatus, lastStepCount, stepStatusMap, lastCascadeStatus,
           pc, attempt, errListener, inflight, emitted, act, err, sent, lastSeq,
           approvalCount, newCount, requests, calls, streamed, applied,
           other, evaluated, fetched, timer >>

tracking == << lastEmittedText, lastEmittedThinking, lastEmittedStdout,
               lastEmittedStderr, emittedInteractions, lastStatus,
               lastStepCount, stepStatusMap, lastCascadeStatus >>

Init ==
    /\ state = New("CascadeState")
    /\ isListening = FALSE
    /\ lastEmittedText = << >>
    /\ lastEmittedThinking = << >>
    /\ lastEmittedStdout = << >>
    /\ lastEmittedStderr = << >>
    /\ emittedInteractions = {}
    /\ lastStatus = Enum("UNSPECIFIED")
    /\ lastStepCount = 0
    /\ stepStatusMap = << >>
    /\ lastCascadeStatus = Enum("UNSPECIFIED")
    /\ pc = "idle"
    /\ attempt = 0
    /\ errListener = FALSE
    /\ inflight = << >>
    /\ emitted = << >>
    /\ act = "init"
    /\ err = NoErr
    /\ sent = 0
    /\ lastSeq = 0
    /\ approvalCount = [i \in 0..(MaxSteps - 1) |-> 0]
    /\ newCount = [i \in 0..(MaxSteps - 1) |-> 0]
    /\ requests = [i \in 0..(MaxSteps - 1) |-> NoRequest]
    /\ calls = << >>
    /\ streamed = [txt |-> << >>, thk |-> << >>, out |-> << >>, err |-> << >>]
    /\ applied = NoneApplied
    /\ other = NewCascade
    /\ evaluated = NoneEvaluated
    /\ fetched = NoneFetched
    /\ timer = 0

(* the tracking fields as the record the emit* operators work on *)
Tracking ==
    [lastStatus |-> lastStatus, lcs |-> lastCascadeStatus, lsc |-> lastStepCount,
     ssm |-> stepStatusMap, ei |-> emittedInteractions, txt |-> lastEmittedText,
     thk |-> lastEmittedThinking, out |-> lastEmittedStdout,
     err |-> lastEmittedStderr, ev |-> << >>]

SetTracking(a) ==
    /\ lastStatus' = a.lastStatus
    /\ lastCascadeStatus' = a.lcs
    /\ lastStepCount' = a.lsc
    /\ stepStatusMap' = a.ssm
    /\ emittedInteractions' = a.ei
    /\ lastEmittedText' = a.txt
    /\ lastEmittedThinking' = a.thk
    /\ lastEmittedStdout' = a.out
    /\ lastEmittedStderr' = a.err

(***************************************************************************)
(* Inputs of the loop specification: the diffs the server may send.        *)
(***************************************************************************)
LoopDiffs ==
    { RunStatusDiff("RUNNING"),
      RunStatusDiff("IDLE"),
      StepsDiff(1, <<0>>, << StepStatus("PENDING") >>),
      StepsDiff(-1, <<0>>, << StepStatus("DONE") >>) }

(* sequence numbers of the messages of a subscription wrap around *)
SeqMod == MaxQueue + 2

(* a listen() without the early return: it opens a subscription whatever  *)
(* isListening says                                                        *)
ListenUnguarded ==
    /\ isListening' = TRUE
    /\ attempt' = 0
    /\ pc' = "stream"
    /\ inflight' = << >>
    /\ emitted' = << >>
    /\ act' = "listen"
    /\ err' = NoErr
    /\ calls' = << >>
    /\ sent' = 0
    /\ lastSeq' = 0
    /\ timer' = 0
    /\ UNCHANGED << state, tracking, errListener, approvalCount, newCount, requests,
                    streamed, applied, other, evaluated, fetched >>

(***************************************************************************)
(* Cascade.listen(): the call itself, up to the first await.               *)
(***************************************************************************)
Listen ==
    /\ ~isListening
    /\ isListening' = TRUE
    /\ attempt' = 0
    /\ pc' = "stream"
    /\ inflight' = << >>
    /\ emitted' = << >>
    /\ act' = "listen"
    /\ err' = NoErr
    /\ calls' = << >>
    /\ sent' = 0
    /\ lastSeq' = 0
    /\ UNCHANGED << state, tracking, errListener, approvalCount, newCount, requests,
                    streamed, applied,
                    other, evaluated, fetched, timer >>

(* cascade.on("error", ...) *)
OnError ==
    /\ ~errListener
    /\ errListener' = TRUE
    /\ emitted' = << >>
    /\ act' = "on_error"
    /\ err' = NoErr
    /\ calls' = << >>
    /\ UNCHANGED << state, tracking, isListening, pc, attempt, inflight, sent, lastSeq,
                    approvalCount, newCount, requests, streamed, applied,
                    other, evaluated, fetched, timer >>

(* the transport receives a message of the open subscription *)
ServerSend(hasDiff, diff) ==
    /\ pc = "stream"
    /\ Len(inflight) < MaxQueue
    /\ inflight' = Append(inflight, [n |-> (sent + 1) % SeqMod, hasDiff |-> hasDiff,
                                     diff |-> diff])
    /\ sent' = (sent + 1) % SeqMod
    /\ emitted' = << >>
    /\ act' = "send"
    /\ err' = NoErr
    /\ calls' = << >>
    /\ UNCHANGED << state, tracking, isListening, pc, attempt, errListener, lastSeq,
                    approvalCount, newCount, requests, streamed, applied,
                    other, evaluated, fetched, timer >>

NextMessageLast(q) == q[Len(q)]

(* the message the for await loop takes next *)
NextMessage(q) == Head(q)

(* `const retryDelay = 1000' of listen() *)
retryDelay == 1000

(* a delay that doubles with every consecutive failed attempt *)
DelayDoubling(n) == retryDelay * (2 ^ n)

(* the delay `setTimeout(resolve, retryDelay)' waits at the end of the     *)
(* iteration of the for loop whose counter is n                            *)
Delay(n) == retryDelay

(* the catch block of listen() for an exception that is not a ConnectError *)
(* (err.code is undefined): emit("error", err), which throws when no       *)
(* 'error' listener is registered                                          *)
CatchNonTerminal(ev) ==
    /\ isListening' = isListening
    /\ IF errListener
       THEN /\ emitted' = Append(ev, [type |-> "error"])
            /\ pc' = "backoff"
            /\ timer' = Delay(attempt)
       ELSE /\ emitted' = ev
            /\ pc' = "crashed"
            /\ timer' = timer

(* number of events of the given type for step index i among the events ev *)
EventsFor(ev, type, i) ==
    Cardinality({ k \in 1..Len(ev) : ev[k].type = type /\ ev[k].stepIndex = i })

(* number of approval:needed events for step index i among the events ev *)
ApprovalsIn(ev, i) == EventsFor(ev, "approval:needed", i)

(* a per-index event counter after the events ev; it stops counting at 2 *)
Counted(count, ev, type) ==
    [i \in DOMAIN count |->
       IF count[i] + EventsFor(ev, type, i) > 2 THEN 2
       ELSE count[i] + EventsFor(ev, type, i)]

(* the approval requests the consumer holds after the events ev: the last  *)
(* approval:needed event of each step index                                *)
Held(held, ev) ==
    [i \in DOMAIN held |->
       LET ks == { k \in 1..Len(ev) :
                     ev[k].type = "approval:needed" /\ ev[k].stepIndex = i }
       IN IF ks = {} THEN held[i] ELSE ev[CHOOSE k \in ks : \A j \in ks : j <= k]]

(* the channel a delta event belongs to: response text, thinking, stdout,   *)
(* stderr; none for the other events                                       *)
Channel(e) ==
    CASE e.type = "text:delta" -> "txt"
      [] e.type = "thinking:delta" -> "thk"
      [] e.type = "command_output" -> (IF e.outputType = "stdout" THEN "out" ELSE "err")
      [] OTHER -> ""

(* what a consumer that appends every delta it receives has after the      *)
(* events ev[k], ev[k+1], ...                                              *)
RECURSIVE StreamedFrom(_, _, _)
StreamedFrom(s, ev, k) ==
    IF k > Len(ev) THEN s
    ELSE IF Channel(ev[k]) = "" THEN StreamedFrom(s, ev, k + 1)
    ELSE StreamedFrom([s EXCEPT ![Channel(ev[k])] =
                          MapSet(@, ev[k].stepIndex, RecGet(@, ev[k].stepIndex) \o ev[k].delta)],
                      ev, k + 1)

(* after this.emitEvents() returned: a holds the tracking fields and the   *)
(* events of the pass                                                      *)
AfterEmitEvents(a) ==
    /\ SetTracking(a)
    /\ emitted' = a.ev
    /\ approvalCount' = Counted(approvalCount, a.ev, "approval:needed")
    /\ newCount' = Counted(newCount, a.ev, "step:new")
    /\ requests' = Held(requests, a.ev)
    /\ streamed' = StreamedFrom(streamed, a.ev, 1)

(* `if (res.diff) { ... }' of the loop body, r being the outcome of        *)
(* applyMessageDiff                                                        *)
AfterApply(r, rest) ==
    /\ state' = r.v
    /\ IF r.ok
       THEN /\ \E a \in { emitEvents(r.v, Emit(Tracking, [type |-> "raw_update"])) } :
                   AfterEmitEvents(a)
            /\ attempt' = 0
            /\ inflight' = rest
            /\ act' = "diff"
            /\ UNCHANGED << isListening, pc, applied,
                    other, evaluated, fetched, timer >>
       ELSE /\ CatchNonTerminal(<< [type |-> "raw_update"] >>)
            /\ inflight' = << >>
            /\ act' = "diff_threw"
            /\ UNCHANGED << tracking, attempt, approvalCount, newCount, requests,
                            streamed, applied,
                    other, evaluated, fetched >>

(* the body of the for await loop for the message res; rest is what the    *)
(* transport still holds afterwards                                        *)
HandleMessage(res, rest) ==
    /\ lastSeq' = (IF rest = << >> THEN 0 ELSE res.n)
    /\ sent' = (IF rest = << >> THEN 0 ELSE sent)
    /\ err' = NoErr
    /\ calls' = << >>
    /\ IF ~res.hasDiff
       THEN /\ attempt' = 0
            /\ inflight' = rest
            /\ emitted' = << >>
            /\ act' = "msg"
            /\ UNCHANGED << state, tracking, isListening, pc, approvalCount, newCount,
                            requests, streamed, applied,
                    other, evaluated, fetched, timer >>
       ELSE \E r \in { ApplyMessageDiff(state, res.diff, "CascadeState") } :
               AfterApply(r, rest)

(* one iteration of the for await loop: the next message is taken *)
RecvMessage ==
    /\ pc = "stream"
    /\ inflight # << >>
    /\ HandleMessage(NextMessage(inflight), Tail(inflight))
    /\ UNCHANGED errListener

(* a message with diff d arrives and is taken at once *)
Deliver(d) ==
    /\ pc = "stream"
    /\ inflight = << >>
    /\ HandleMessage([n |-> (sent + 1) % SeqMod, hasDiff |-> TRUE, diff |-> d], << >>)
    /\ UNCHANGED errListener

(* the stream ends normally: the for await loop is left, on to the timer *)
StreamEnd ==
    /\ pc = "stream"
    /\ inflight = << >>
    /\ pc' = "backoff"
    /\ timer' = Delay(attempt)
    /\ emitted' = << >>
    /\ act' = "end"
    /\ err' = NoErr
    /\ calls' = << >>
    /\ UNCHANGED << state, tracking, isListening, attempt, errListener, inflight,
                    sent, lastSeq, approvalCount, newCount, requests, streamed, applied,
                    other, evaluated, fetched >>

(* the stream fails with ConnectError e: the catch block of listen() *)
StreamError(e) ==
    /\ pc = "stream"
    /\ inflight = << >>
    /\ act' = "error"
    /\ err' = e
    /\ calls' = << >>
    /\ IF IsTerminal(e)
       THEN /\ pc' = "idle"
            /\ isListening' = FALSE
            /\ emitted' = << >>
            /\ timer' = timer
       ELSE CatchNonTerminal(<< >>)
    /\ UNCHANGED << state, tracking, attempt, errListener, inflight, sent, lastSeq,
                    approvalCount, newCount, requests, streamed, applied,
                    other, evaluated, fetched >>

(* a resubscription that starts with fresh text tracking *)
BackoffElapsedFresh ==
    /\ pc = "backoff"
    /\ attempt < MaxAttempt
    /\ attempt' = attempt + 1
    /\ pc' = "stream"
    /\ emitted' = << >>
    /\ act' = "subscribe"
    /\ err' = NoErr
    /\ calls' = << >>
    /\ sent' = 0
    /\ lastSeq' = 0
    /\ lastEmittedText' = << >>
    /\ timer' = 0
    /\ UNCHANGED << state, lastEmittedThinking, lastEmittedStdout, lastEmittedStderr,
                    emittedInteractions, lastStatus, lastStepCount, stepStatusMap,
                    lastCascadeStatus, isListening, errListener, inflight,
                    approvalCount, newCount, requests, streamed, applied,
                    other, evaluated, fetched >>

(* the retry timer fires: attempt++ and the next subscription is opened *)
BackoffElapsed ==
    /\ pc = "backoff"
    /\ attempt < MaxAttempt
    /\ attempt' = attempt + 1
    /\ pc' = "stream"
    /\ emitted' = << >>
    /\ act' = "subscribe"
    /\ err' = NoErr
    /\ calls' = << >>
    /\ sent' = 0
    /\ lastSeq' = 0
    /\ timer' = 0
    /\ UNCHANGED << state, tracking, isListening, errListener, inflight,
                    approvalCount, newCount, requests, streamed, applied,
                    other, evaluated, fetched >>

Send == \E d \in LoopDiffs : ServerSend(TRUE, d)

SendNoDiff == ServerSend(FALSE, << >>)

Fail == \E e \in StreamErrors : StreamError(e)

Next ==
    \/ Listen
    \/ OnError
    \/ Send
    \/ SendNoDiff
    \/ RecvMessage
    \/ StreamEnd
    \/ Fail
    \/ BackoffElapsed

Spec == Init /\ [][Next]_vars

(***************************************************************************)
(* Properties of the subscription loop (specification Spec).               *)
(***************************************************************************)
HasEvent(ev, type) == \E k \in 1..Len(ev) : ev[k].type = type

CountEvents(ev, type) == Cardinality({ k \in 1..Len(ev) : ev[k].type = type })

(* the stream failures the specification calls terminal *)
ExplicitCancellation(e) == e.code = 1 \/ (e.code = 2 /\ e.canceledInMessage)

ResourceNotFound(e) == e.code = 5

(* C1: whenever the update stream ends, by clean end-of-stream or by an    *)
(* error that is not terminal, the loop does not exit but waits for the    *)
(* retry timer (from where the next subscription is opened).               *)
C1_StreamEndLeadsToBackoff ==
    (act = "end" \/ (act = "error" /\ ~ExplicitCancellation(err) /\ ~ResourceNotFound(err)))
        => pc = "backoff"

(* C2: a stream failure that is an explicit cancellation ends the loop:    *)
(* the step emits nothing and leaves the loop stopped, and a stopped loop  *)
(* emits no event and opens no subscription (only a new listen() call      *)
(* starts a loop again).                                                   *)
C2_CancellationStopsLoop ==
    [][ /\ (act' = "error" /\ ExplicitCancellation(err'))
            => (pc' = "idle" /\ ~isListening' /\ emitted' = << >>)
        /\ pc = "idle" => (emitted' = << >> /\ (pc' # "idle" => act' = "listen")) ]_vars

C2_Witness ==
    act = "error" /\ ExplicitCancellation(err) /\ pc = "idle" /\ lastStepCount > 0

(* C3: a resource-not-found stream failure is terminal: the loop stops and *)
(* no new subscription is opened.                                          *)
C3_NotFoundStopsLoop ==
    (act = "error" /\ ResourceNotFound(err)) => (pc = "idle" /\ ~isListening)

(* C4: an `error' event is emitted only when a terminal stream error ends  *)
(* the loop, and then exactly once; a non-terminal stream failure emits no *)
(* `error' event.                                                          *)
C4_ErrorEventOnlyOnTerminal ==
    /\ HasEvent(emitted, "error")
         => (act = "error" /\ (ExplicitCancellation(err) \/ ResourceNotFound(err)))
    /\ (act = "error" /\ (ExplicitCancellation(err) \/ ResourceNotFound(err)))
         => CountEvents(emitted, "error") = 1

(* C5: messages are handled one at a time in arrival order, and the diff   *)
(* of a message is applied and its events are derived to completion before *)
(* the next message is taken: what the transport still holds are exactly   *)
(* the messages that follow the last one handled, and right after a diff   *)
(* was handled nothing is left to derive from the projection.              *)
C5_InOrderRunToCompletion ==
    /\ pc = "stream" =>
         \A k \in 1..Len(inflight) : inflight[k].n = (lastSeq + k) % SeqMod
    /\ act = "diff" =>
         /\ emitEvents(state, Tracking).ev = << [type |-> "update"] >>
         /\ [emitEvents(state, Tracking) EXCEPT !.ev = << >>] = Tracking

C5_Witness ==
    /\ act = "diff"
    /\ Len(inflight) >= 1
    /\ HasEvent(emitted, "step:new")

(***************************************************************************)
(* The derivation specification: every message carries a diff and is taken *)
(* as soon as it arrives.  Its inputs grow the step list (never shrink     *)
(* it), patch at most one step per diff and may set the run status; a      *)
(* length that grows past the patched index leaves padded placeholders.    *)
(***************************************************************************)
CurLen == IF Truthy(StepsOf(state)) THEN Len(StepsOf(state).v) ELSE 0

(* the steps of the projection st, none when there is no trajectory *)
StepList(st) == IF Truthy(StepsOf(st)) THEN StepsOf(st).v ELSE << >>

(* the step carries a request to run a command, and output of it *)
StepPayload == StepInteraction(2) \o StepStdout(<< "a" >>)

(* a pending step that carries the payload *)
FullStep == StepStatus("PENDING") \o StepPayload

(* diffs of trajectory.steps for a step list of length len: it grows to n  *)
(* and at most one step is patched, with one of the step diffs sds         *)
StepsParts(len, sds) ==
    {<< >>}
    \cup { StepsDiff(n, << >>, << >>) : n \in (len + 1)..MaxSteps }
    \cup UNION { { StepsDiff(n, << i >>, << sd >>) : i \in 0..(n - 1), sd \in sds } :
                 n \in len..MaxSteps }

(* diffs that set the run status, alone or together with a full last step *)
RunStatusParts(len) ==
    { RunStatusDiff("RUNNING"), RunStatusDiff("IDLE") }
    \cup { RunStatusDiff("RUNNING") \o StepsDiff(n, << n - 1 >>, << FullStep >>) :
             n \in (len + 1)..MaxSteps }

EventDiffs(len) ==
    StepsParts(len, { StepStatus("PENDING"), StepStatus("DONE"), FullStep })
    \cup RunStatusParts(len)

DeliverDiff == \E d \in EventDiffs(CurLen) : Deliver(d)

NextEvents ==
    \/ Listen
    \/ DeliverDiff
    \/ StreamEnd
    \/ BackoffElapsed

SpecEvents == Init /\ [][NextEvents]_vars

(***************************************************************************)
(* The approval specification: the derivation specification with the      *)
(* inputs that decide approvals.  A step becomes eligible and receives its *)
(* payload in either order or in one diff, and the run status stays as it  *)
(* is.                                                                     *)
(***************************************************************************)
ApprovalDiffs(len) ==
    StepsParts(len, { StepStatus("PENDING"), StepStatus("DONE"), StepPayload, FullStep })

DeliverApprovalDiff == \E d \in ApprovalDiffs(CurLen) : Deliver(d)

NextApprovals ==
    \/ Listen
    \/ DeliverApprovalDiff
    \/ StreamEnd
    \/ BackoffElapsed

SpecApprovals == Init /\ [][NextApprovals]_vars

(***************************************************************************)
(* The consumer of approval requests: approve() and deny() of a request    *)
(* it holds.  A request closes over the step index and the interaction     *)
(* case it was built from.                                                 *)
(***************************************************************************)
(* this.cascadeId *)
CascadeId == << "c" >>

(* `this.state.trajectory?.trajectoryId || this.cascadeId' *)
TrajectoryIdOrCascadeId(st) ==
    LET trajectoryId == StrOf(Field(Field(st, "trajectory"), "trajectoryId"))
    IN IF trajectoryId # << >> THEN trajectoryId ELSE CascadeId

(* approve() of every request answers with the case runCommand *)
ApproveCaseCommandOnly(req) == "runCommand"

(* the case of the CascadeUserInteraction approve() of the request req     *)
(* sends: approveCommand, approveFilePermission, approveOpenBrowserUrl     *)
(* have their own case, sendInteraction passes on the one of the request   *)
ApproveCase(req) ==
    CASE req.kind = "run_command" -> "runCommand"
      [] req.kind = "file_permission" -> "filePermission"
      [] req.kind = "open_browser_url" -> "openBrowserUrl"
      [] OTHER -> req.interactionCase

(* new HandleCascadeUserInteractionRequest({ cascadeId, interaction:        *)
(* new CascadeUserInteraction({ trajectoryId, stepIndex, interaction }) })  *)
HandleCascadeUserInteractionRequest(st, stepIndex, case) ==
    [cascadeId |-> CascadeId, trajectoryId |-> TrajectoryIdOrCascadeId(st),
     stepIndex |-> stepIndex, case |-> case]

(* request.approve() of the request held for step index i *)
Approve(i) ==
    /\ requests[i] # NoRequest
    /\ calls' = << [by |-> i,
                     req |-> HandleCascadeUserInteractionRequest(
                                 state, requests[i].stepIndex, ApproveCase(requests[i]))] >>
    /\ emitted' = << >>
    /\ act' = "approve"
    /\ err' = NoErr
    /\ UNCHANGED << state, tracking, isListening, pc, attempt, errListener, inflight,
                    sent, lastSeq, approvalCount, newCount, requests, streamed, applied,
                    other, evaluated, fetched, timer >>

(* deny() that sends the interaction of the request back *)
DenyWithCall(i) ==
    /\ requests[i] # NoRequest
    /\ calls' = << [by |-> i,
                     req |-> HandleCascadeUserInteractionRequest(
                                 state, requests[i].stepIndex, ApproveCase(requests[i]))] >>
    /\ emitted' = << >>
    /\ act' = "deny"
    /\ err' = NoErr
    /\ UNCHANGED << state, tracking, isListening, pc, attempt, errListener, inflight,
                    sent, lastSeq, approvalCount, newCount, requests, streamed, applied,
                    other, evaluated, fetched, timer >>

(* request.deny() of the request held for step index i: a no-op *)
Deny(i) ==
    /\ requests[i] # NoRequest
    /\ calls' = << >>
    /\ emitted' = << >>
    /\ act' = "deny"
    /\ err' = NoErr
    /\ UNCHANGED << state, tracking, isListening, pc, attempt, errListener, inflight,
                    sent, lastSeq, approvalCount, newCount, requests, streamed, applied,
                    other, evaluated, fetched, timer >>

(***************************************************************************)
(* The consumer specification: steps arrive one by one, each with its      *)
(* status and payload in one diff, and are later patched to done; the      *)
(* trajectory identifier may arrive at any time.  The consumer approves    *)
(* and denies the requests it holds.                                       *)
(***************************************************************************)
TrajectoryIdDiff(id) == << SetField(2, MsgSV(<< SetField(1, StrSV(id)) >>)) >>

(* the steps a diff appends: waiting with one of the payloads, waiting     *)
(* without payload, and a payload without a status                         *)
InteractSteps ==
    { StepStatus("WAITING") \o StepInteraction(no) : no \in {2, 3, 4, 9} }
    \cup { StepStatus("WAITING") \o StepInlinePermission(<< "p" >>),
           StepStatus("WAITING"),
           StepInteraction(2) }

InteractDiffs(len) ==
    { TrajectoryIdDiff(<< "t" >>) }
    \cup { StepsDiff(len + 1, << len >>, << sd >>) :
             sd \in IF len < MaxSteps THEN InteractSteps ELSE {} }
    \cup { StepsDiff(-1, << i >>, << StepStatus("DONE") >>) : i \in 0..(len - 1) }

DeliverInteractDiff == \E d \in InteractDiffs(CurLen) : Deliver(d)

ApproveRequest == \E i \in DOMAIN requests : Approve(i)

DenyRequest == \E i \in DOMAIN requests : Deny(i)

NextInteract ==
    \/ Listen
    \/ DeliverInteractDiff
    \/ ApproveRequest
    \/ DenyRequest

SpecInteract == Init /\ [][NextInteract]_vars

(***************************************************************************)
(* The growth specification: the channels of a step (response text and     *)
(* thinking of a planner response, stdout and stderr of a command) only    *)
(* grow by appending, and a diff may resend the value a channel has.       *)
(* The trajectory is a planner response (index 0) followed by a command    *)
(* (index 1).  Every channel streams the same text, of which it holds a    *)
(* prefix.  The stream may end and be resubscribed at any time.            *)
(***************************************************************************)
Alphabet == << "a", "b", "c", "d", "e" >>

Prefix(n) == SubSeq(Alphabet, 1, n)

(* the value of a channel of the step at index i of the projection st, as  *)
(* emitTextDeltas and emitCommandOutputDeltas read it                      *)
ChannelValue(st, i, ch) ==
    LET step == ArrGet(StepList(st), i)
        value == StepValue(step)
        modifiedResponse == StrOf(Field(value, "modifiedResponse"))
    IN CASE ch = "txt" /\ StepCase(step) = "plannerResponse" ->
              (IF modifiedResponse # << >> THEN modifiedResponse
               ELSE StrOf(Field(value, "response")))
         [] ch = "thk" /\ StepCase(step) = "plannerResponse" -> StrOf(Field(value, "thinking"))
         [] ch = "out" /\ StepCase(step) = "runCommand" -> StrOf(Field(value, "stdout"))
         [] ch = "err" /\ StepCase(step) = "runCommand" -> StrOf(Field(value, "stderr"))
         [] OTHER -> << >>

(* the Step diff that sets the channel ch to txt *)
ChannelDiff(ch, txt) ==
    CASE ch = "txt" -> StepResponse(txt)
      [] ch = "thk" -> StepThinking(txt)
      [] ch = "out" -> StepStdout(txt)
      [] ch = "err" -> StepStderr(txt)

(* the channels of the step at index i *)
ChannelsAt(i) == IF i = 0 THEN << "txt", "thk" >> ELSE << "out", "err" >>

(* Step diffs that leave the channel ch of step i of st as it is or extend *)
(* it, up to n characters                                                  *)
GrowthOf(st, i, ch, n) ==
    { ChannelDiff(ch, Prefix(m)) : m \in Len(ChannelValue(st, i, ch))..n }

(* Step diffs for the channels of step i of st: one channel, or both to    *)
(* the whole text                                                          *)
GrowthSteps(st, i) ==
    GrowthOf(st, i, ChannelsAt(i)[1], MaxText)
    \cup GrowthOf(st, i, ChannelsAt(i)[2], MaxText)
    \cup { ChannelDiff(ChannelsAt(i)[1], Prefix(MaxText))
             \o ChannelDiff(ChannelsAt(i)[2], Prefix(MaxText)) }

(* diffs that patch one step of the len steps, or append one *)
GrowthDiffs(st, len) ==
    UNION { { StepsDiff(IF i < len THEN -1 ELSE i + 1, << i >>, << sd >>) :
                sd \in GrowthSteps(st, i) } :
            i \in { j \in 0..len : j <= 1 } }

DeliverGrowthDiff == \E d \in GrowthDiffs(state, CurLen) : Deliver(d)

NextDeltas ==
    \/ Listen
    \/ DeliverGrowthDiff
    \/ StreamEnd
    \/ BackoffElapsed

SpecDeltas == Init /\ [][NextDeltas]_vars

(***************************************************************************)
(* The apply specification: applyMessageDiff called directly, on a message *)
(* of the type Rec (a oneof group with a scalar and a message member, a    *)
(* repeated message field, a repeated scalar field).  The diffs have one   *)
(* field operation or none; a repeated diff may carry a new length and may *)
(* update one index, inside or outside the new length.                     *)
(***************************************************************************)
LeafX == MsgSV(<< SetField(1, StrSV(<< "x" >>)) >>)

LeafY == MsgSV(<< SetField(2, StrSV(<< "y" >>)) >>)

(* the RepeatedDiffs that update at most one index, with the value sv *)
RepeatedDiffs(sv) ==
    { [hasNewLength |-> n >= 0, newLength |-> n, updateIndices |-> idxs,
       updateValues |-> [k \in 1..Len(idxs) |-> sv]] :
        n \in -1..MaxLen, idxs \in {<< >>} \cup { << i >> : i \in 0..(MaxLen - 1) } }

RecDiffs ==
    { << >>,
      << SetField(2, StrSV(<< "a" >>)) >>,
      << SetField(3, LeafX) >>,
      << SetField(3, LeafY) >> }
    \cup { << RepeatedField(4, rd) >> : rd \in RepeatedDiffs(LeafX) }
    \cup { << RepeatedField(5, rd) >> : rd \in RepeatedDiffs(StrSV(<< "t" >>)) }

(* the targets of the first call: a new Rec, or one a diff was applied to *)
RecTargets == { ApplyMessageDiff(New("Rec"), d, "Rec").v : d \in RecDiffs }

InitApply ==
    /\ state \in RecTargets
    /\ isListening = FALSE
    /\ lastEmittedText = << >>
    /\ lastEmittedThinking = << >>
    /\ lastEmittedStdout = << >>
    /\ lastEmittedStderr = << >>
    /\ emittedInteractions = {}
    /\ lastStatus = Enum("UNSPECIFIED")
    /\ lastStepCount = 0
    /\ stepStatusMap = << >>
    /\ lastCascadeStatus = Enum("UNSPECIFIED")
    /\ pc = "idle"
    /\ attempt = 0
    /\ errListener = FALSE
    /\ inflight = << >>
    /\ emitted = << >>
    /\ act = "init"
    /\ err = NoErr
    /\ sent = 0
    /\ lastSeq = 0
    /\ approvalCount = [i \in 0..(MaxSteps - 1) |-> 0]
    /\ newCount = [i \in 0..(MaxSteps - 1) |-> 0]
    /\ requests = [i \in 0..(MaxSteps - 1) |-> NoRequest]
    /\ calls = << >>
    /\ streamed = [txt |-> << >>, thk |-> << >>, out |-> << >>, err |-> << >>]
    /\ applied = NoneApplied
    /\ other = NewCascade
    /\ evaluated = NoneEvaluated
    /\ fetched = NoneFetched
    /\ timer = 0

(* applyMessageDiff(state, d, Rec), r being its outcome *)
Applied(d, r) ==
    /\ state' = r.v
    /\ applied' = [diff |-> d, was |-> state.f.choice.case, ok |-> r.ok]
    /\ UNCHANGED << other, evaluated, fetched, timer >>
    /\ act' = "apply"
    /\ emitted' = << >>
    /\ err' = NoErr
    /\ calls' = << >>
    /\ UNCHANGED << tracking, isListening, pc, attempt, errListener, inflight, sent,
                    lastSeq, approvalCount, newCount, requests, streamed >>

ApplyDiff == \E d \in RecDiffs : \E r \in { ApplyMessageDiff(state, d, "Rec") } : Applied(d, r)

NextApply == ApplyDiff

SpecApply == InitApply /\ [][NextApply]_vars

(***************************************************************************)
(* Properties of the derivation pass (specifications SpecEvents and        *)
(* SpecApprovals).                                                         *)
(***************************************************************************)
(* the group of the derivation order an event belongs to *)
EventGroup(e) ==
    CASE e.type \in {"raw_update", "update"} -> 0
      [] e.type \in {"done", "status_change"} -> 1
      [] e.type \in {"step:new", "step:update"} -> 2
      [] e.type \in {"interaction", "approval:needed"} -> 3
      [] e.type \in {"command_output", "text", "text:delta",
                     "thinking", "thinking:delta"} -> 4
      [] OTHER -> 5

(* C6: the events of one derivation pass come in the fixed order run       *)
(* status, then step:new / step:update, then approvals, then growth        *)
(* deltas: no event of a later group precedes an event of an earlier one.  *)
C6_FixedGroupOrder ==
    act = "diff" =>
        \A j, k \in 1..Len(emitted) :
            j < k => EventGroup(emitted[j]) <= EventGroup(emitted[k])

C6_Witness ==
    /\ act = "diff"
    /\ \A g \in 1..4 : \E k \in 1..Len(emitted) : EventGroup(emitted[k]) = g
    /\ lastStepCount = 2

(* C7: a pass emits status_change exactly when the run status of the      *)
(* projection differs from the one of the previous pass (unspecified at    *)
(* first), carrying that previous status, and emits done exactly when the  *)
(* run status became idle from a status that is not idle.                  *)
C7_StatusChangeIffRunStatusDiffers ==
    [][ act' = "diff" =>
          LET old == state.f.status
              new == state'.f.status
              sc == { k \in 1..Len(emitted') : emitted'[k].type = "status_change" }
          IN /\ new # old =>
                  /\ Cardinality(sc) = 1
                  /\ \A k \in sc : /\ emitted'[k].previousStatus = toRunStatus(old)
                                    /\ emitted'[k].status = toRunStatus(new)
             /\ new = old => sc = {}
             /\ CountEvents(emitted', "done") =
                  (IF new = Enum("IDLE") /\ old # Enum("IDLE") THEN 1 ELSE 0) ]_vars

C7_Witness ==
    /\ act = "diff"
    /\ HasEvent(emitted, "done")
    /\ \E k \in 1..Len(emitted) :
          /\ emitted[k].type = "status_change"
          /\ emitted[k].previousStatus = "running"
          /\ emitted[k].status = "idle"

(* C8: in each pass every index from the tracked count up to the length of *)
(* the step list is reported by exactly one step:new event, in ascending   *)
(* order, and the tracked count becomes that length; no index is reported  *)
(* by a second step:new event in the whole session.                        *)
C8_EveryNewIndexReportedOnce ==
    [][ act' = "diff" =>
          LET n == Len(StepList(state'))
          IN /\ \A i \in lastStepCount..(n - 1) : EventsFor(emitted', "step:new", i) = 1
             /\ \A j, k \in 1..Len(emitted') :
                   (j < k /\ emitted'[j].type = "step:new" /\ emitted'[k].type = "step:new")
                      => emitted'[j].stepIndex < emitted'[k].stepIndex
             /\ n >= lastStepCount => lastStepCount' = n
             /\ \A i \in DOMAIN newCount : newCount'[i] <= 1 ]_vars

(* C9: for a step with a cached status, a pass emits step:update exactly   *)
(* when the live status differs from the cached one, carrying the cached   *)
(* status as previousStatus; a step without a cached status (new in the    *)
(* pass) gets no step:update; after the pass the cache holds the live      *)
(* status of every step.                                                   *)
C9_StepUpdateIffStatusDiffers ==
    [][ act' = "diff" =>
          \A i \in 0..(Len(StepList(state')) - 1) :
             LET step == ArrGet(StepList(state'), i)
                 ups == { k \in 1..Len(emitted') :
                            emitted'[k].type = "step:update" /\ emitted'[k].stepIndex = i }
             IN Truthy(step) =>
                  /\ IF i \in DOMAIN stepStatusMap /\ stepStatusMap[i] # step.f.status
                     THEN /\ Cardinality(ups) = 1
                          /\ \A k \in ups :
                                /\ emitted'[k].previousStatus = toStepStatus(stepStatusMap[i])
                                /\ emitted'[k].status = toStepStatus(step.f.status)
                     ELSE ups = {}
                  /\ i \in DOMAIN stepStatusMap'
                  /\ stepStatusMap'[i] = step.f.status ]_vars

C9_Witness ==
    /\ act = "diff"
    /\ DOMAIN stepStatusMap = {0, 1}
    /\ CountEvents(emitted, "step:update") = 1
    /\ \E k \in 1..Len(emitted) :
          /\ emitted[k].type = "step:update"
          /\ emitted[k].previousStatus = "pending"
          /\ emitted[k].status = "done"

(* the step at index i is eligible (its status is pending, running or      *)
(* waiting) and carries an interaction payload                             *)
EligibleWithPayload(st, i) ==
    LET step == ArrGet(StepList(st), i)
    IN /\ Truthy(step)
       /\ step.f.status \in {Enum("PENDING"), Enum("RUNNING"), Enum("WAITING")}
       /\ (InteractionCase(step) # "" \/ Truthy(InlineFilePermission(step)))

(* C10: for each step index a pass emits approval:needed exactly when the  *)
(* step is eligible with a payload and no approval:needed was emitted for  *)
(* the index before, so that over any sequence of diffs, repeated and      *)
(* resent ones included, the index gets exactly one such event, in the     *)
(* first pass in which the step is eligible and carries a payload.         *)
C10_ExactlyOneApproval ==
    [][ act' = "diff" =>
          \A i \in DOMAIN approvalCount :
             /\ ApprovalsIn(emitted', i) =
                  (IF EligibleWithPayload(state', i) /\ approvalCount[i] = 0 THEN 1 ELSE 0)
             /\ approvalCount'[i] <= 1 ]_vars

C10_Witness ==
    /\ act = "diff"
    /\ EligibleWithPayload(state, 0)
    /\ approvalCount[0] = 1
    /\ ApprovalsIn(emitted, 0) = 0
    /\ EligibleWithPayload(state, 1)
    /\ ApprovalsIn(emitted, 1) = 1

(* C11: approval:needed is emitted for a step, and the step index is      *)
(* added to the emitted-approval set, only in a derivation pass and only   *)
(* if the step then has status pending, running or waiting and carries an  *)
(* interaction payload (a requested-interaction case or an inline          *)
(* file-permission request); a step in another status or without payload   *)
(* yields no approval event and is not added to the set.                   *)
C11_ApprovalOnlyWhenEligible ==
    [][ \A i \in DOMAIN approvalCount :
          (ApprovalsIn(emitted', i) > 0 \/ (i \in emittedInteractions' \ emittedInteractions))
             => (act' = "diff" /\ EligibleWithPayload(state', i)) ]_vars

C11_Witness ==
    /\ act = "diff"
    /\ InteractionCase(ArrGet(StepList(state), 0)) = "runCommand"
    /\ ~EligibleWithPayload(state, 0)
    /\ 0 \notin emittedInteractions
    /\ approvalCount[0] = 0
    /\ Truthy(InlineFilePermission(ArrGet(StepList(state), 1)))
    /\ \E k \in 1..Len(emitted) :
          /\ emitted[k].type = "approval:needed"
          /\ emitted[k].stepIndex = 1
          /\ emitted[k].kind = "file_permission"
    /\ emittedInteractions = {1}

(***************************************************************************)
(* Properties of the growth deltas (specification SpecDeltas).             *)
(***************************************************************************)
Channels == {"txt", "thk", "out", "err"}

(* the tracking field of a channel *)
TrackedOf(ch) ==
    CASE ch = "txt" -> lastEmittedText
      [] ch = "thk" -> lastEmittedThinking
      [] ch = "out" -> lastEmittedStdout
      [] ch = "err" -> lastEmittedStderr

(* the delta events for channel ch of step i among the events ev *)
DeltaEvents(ev, i, ch) ==
    { k \in 1..Len(ev) : Channel(ev[k]) = ch /\ ev[k].stepIndex = i }

(* the full text a delta event carries *)
FullOf(e) == IF e.type = "command_output" THEN e.text ELSE e.fullText

(* C12: in every pass and for each of the four channels of every step: if  *)
(* the current value is longer than the tracked one, exactly one delta     *)
(* event is emitted for the channel, its delta is the current value from   *)
(* the tracked length on, its full text the current value, and the tracked *)
(* length becomes the current length; if it is not longer, no delta event  *)
(* is emitted for the channel and the tracked value stays.                 *)
C12_DeltaIffLonger ==
    [][ act' = "diff" =>
          \A i \in 0..(MaxSteps - 1), ch \in Channels :
             LET cur == ChannelValue(state', i, ch)
                 tracked == RecGet(TrackedOf(ch), i)
                 ks == DeltaEvents(emitted', i, ch)
             IN IF Len(cur) > Len(tracked)
                THEN /\ Cardinality(ks) = 1
                     /\ \A k \in ks : /\ emitted'[k].delta = SubSeq(cur, Len(tracked) + 1, Len(cur))
                                      /\ FullOf(emitted'[k]) = cur
                     /\ Len(RecGet(TrackedOf(ch)', i)) = Len(cur)
                ELSE /\ ks = {}
                     /\ RecGet(TrackedOf(ch)', i) = tracked ]_vars

C12_Witness ==
    /\ act = "diff"
    /\ \E k \in 1..Len(emitted) :
          /\ emitted[k].type = "command_output"
          /\ emitted[k].outputType = "stdout"
          /\ emitted[k].stepIndex = 1
          /\ emitted[k].delta = << "b" >>
          /\ emitted[k].text = << "a", "b" >>
    /\ ChannelValue(state, 1, "err") = << "a" >>
    /\ DeltaEvents(emitted, 1, "err") = {}
    /\ ChannelValue(state, 0, "txt") = << "a", "b" >>
    /\ lastEmittedText[0] = << "a", "b" >>

(* C13: when the channels only grow by appending (the inputs of            *)
(* SpecDeltas), the deltas emitted for a step and channel, put one after   *)
(* the other in emission order, are the full value the channel has.        *)
C13_DeltasConcatenateToFullValue ==
    \A i \in 0..(MaxSteps - 1), ch \in Channels :
        RecGet(streamed[ch], i) = ChannelValue(state, i, ch)

C13_Witness ==
    /\ act = "diff"
    /\ RecGet(streamed.txt, 0) = Prefix(MaxText)
    /\ RecGet(streamed.thk, 0) = Prefix(1)
    /\ RecGet(streamed.err, 1) = Prefix(MaxText)
    /\ \E k \in 1..Len(emitted) :
          /\ emitted[k].type = "command_output"
          /\ emitted[k].outputType = "stderr"
          /\ emitted[k].delta = SubSeq(Alphabet, MaxText, MaxText)
    /\ attempt = 0
    /\ lastStepCount = 2

(* C14: the end of the stream and the resubscription leave the delta       *)
(* tracking as it is, and the first diff after a resubscription emits no   *)
(* text:delta for a step whose text is the cumulative text the deltas      *)
(* (those before the stream ended) already carried.                        *)
C14_ResyncEmitsNoTextDelta ==
    [][ /\ act' \in {"end", "subscribe"} =>
              UNCHANGED << lastEmittedText, lastEmittedThinking, lastEmittedStdout,
                           lastEmittedStderr >>
        /\ (act = "subscribe" /\ act' = "diff") =>
              \A i \in 0..(MaxSteps - 1) :
                 ChannelValue(state', i, "txt") = RecGet(streamed.txt, i)
                    => DeltaEvents(emitted', i, "txt") = {} ]_vars

C14_Witness ==
    /\ act = "subscribe"
    /\ attempt >= 1
    /\ pc = "stream"
    /\ RecGet(streamed.txt, 0) = Prefix(MaxText)
    /\ RecGet(lastEmittedText, 0) = Prefix(MaxText)
    /\ ChannelValue(state, 0, "txt") = Prefix(MaxText)

(* the event kinds a consumer of the client subscribes to *)
ExposedKinds ==
    {"step:new", "step:update", "status_change", "done", "approval:needed",
     "text:delta", "thinking:delta", "command_output"}

(* C15: a pass after a diff that left the projection as it was emits no    *)
(* step:new, step:update, status_change, done, approval:needed,            *)
(* text:delta, thinking:delta or command_output event and leaves every     *)
(* tracking field unchanged.                                               *)
C15_NoOpDiffEmitsNothing ==
    [][ (act' = "diff" /\ state' = state) =>
          /\ \A k \in 1..Len(emitted') : emitted'[k].type \notin ExposedKinds
          /\ UNCHANGED tracking ]_vars

C15_Witness ==
    /\ act = "diff"
    /\ emitted = << [type |-> "raw_update"], [type |-> "update"] >>
    /\ state.f.status = Enum("RUNNING")
    /\ \A i \in 0..1 : EligibleWithPayload(state, i) /\ approvalCount[i] = 1
    /\ lastStepCount = 2
    /\ RecGet(lastEmittedStdout, 1) = << "a" >>

(***************************************************************************)
(* Properties of approve() and deny() (specification SpecInteract).        *)
(***************************************************************************)
(* the trajectory identifier the projection holds, empty when it has none *)
ProjectedTrajectoryId(st) == StrOf(Field(Field(st, "trajectory"), "trajectoryId"))

(* the interaction case that answers the request req: the case it was      *)
(* built from, filePermission for an inline file-permission request        *)
MatchingCase(req) ==
    IF req.interactionCase # "" THEN req.interactionCase ELSE "filePermission"

(* approve() of the request held for step i issued exactly one call, with  *)
(* the session id, the trajectory identifier trajectoryId, step index i    *)
(* and the matching case                                                   *)
OneMatchingCall(cs, i, req, trajectoryId) ==
    /\ Len(cs) = 1
    /\ cs[1].by = i
    /\ cs[1].req.cascadeId = CascadeId
    /\ cs[1].req.trajectoryId = trajectoryId
    /\ cs[1].req.stepIndex = i
    /\ cs[1].req.case = MatchingCase(req)

(* C16, as stated: every approve() of a request emitted for step i issues  *)
(* exactly one handleCascadeUserInteraction call that carries the session  *)
(* id, the trajectory identifier of the session, step index i and the      *)
(* case the request was built from; no call is issued by anything else.    *)
C16_ApproveCarriesTrajectoryId ==
    [][ /\ act' = "approve" =>
              \E i \in DOMAIN requests :
                 /\ requests[i] # NoRequest
                 /\ approvalCount[i] > 0
                 /\ OneMatchingCall(calls', i, requests[i], ProjectedTrajectoryId(state'))
        /\ act' # "approve" => calls' = << >> ]_vars

(* C16, amended: as above, but the call carries the trajectory identifier  *)
(* of the projection only when the projection has one, and the session id  *)
(* in its place otherwise.                                                 *)
C16_ApproveIssuesOneMatchingCall ==
    [][ /\ act' = "approve" =>
              \E i \in DOMAIN requests :
                 /\ requests[i] # NoRequest
                 /\ approvalCount[i] > 0
                 /\ OneMatchingCall(calls', i, requests[i],
                                    IF ProjectedTrajectoryId(state') # << >>
                                    THEN ProjectedTrajectoryId(state') ELSE CascadeId)
        /\ act' # "approve" => calls' = << >> ]_vars

C16_Witness ==
    /\ act = "approve"
    /\ Len(calls) = 1
    /\ calls[1].by = 1
    /\ calls[1].req.stepIndex = 1
    /\ calls[1].req.case = "mcp"
    /\ calls[1].req.trajectoryId = << "t" >>
    /\ \A i \in 0..1 : requests[i] # NoRequest
    /\ requests[0].kind = "run_command"
    /\ requests[1].kind = "mcp"

(* C17: for every kind of approval request, deny() issues no call and      *)
(* changes neither the projection nor any tracking field (nor the loop).   *)
C17_DenyChangesNothing ==
    [][ act' = "deny" =>
          /\ calls' = << >>
          /\ UNCHANGED << state, tracking, isListening, pc, attempt >> ]_vars

C17_Witness ==
    /\ act = "deny"
    /\ calls = << >>
    /\ \A i \in 0..1 : requests[i] # NoRequest
    /\ requests[0].kind = "file_permission"
    /\ requests[0].interactionCase = ""
    /\ requests[1].kind \in {"open_browser_url", "file_permission"}
    /\ requests[1].interactionCase # ""

(***************************************************************************)
(* Properties of applyMessageDiff (specification SpecApply).               *)
(***************************************************************************)
(* the diff applied last has the single field operation `case' on a field  *)
(* among nos                                                               *)
AppliedOne(ap, case, nos) ==
    /\ Len(ap.diff) = 1
    /\ ap.diff[1].case = case
    /\ ap.diff[1].fieldNumber \in nos

(* C18: applying a diff without field operations changes nothing: the      *)
(* target after the call equals the target before it, and the call         *)
(* returns normally.                                                       *)
C18_EmptyDiffChangesNothing ==
    [][ (act' = "apply" /\ applied'.diff = << >>) => (state' = state /\ applied'.ok) ]_vars

C18_Witness ==
    /\ act = "apply"
    /\ applied.diff = << >>
    /\ state.f.choice.case = "b"
    /\ Len(state.f.items.v) = 2
    /\ Truthy(ArrGet(state.f.items.v, 1))
    /\ state.f.tags.v = << Str(<< "t" >>) >>

(* the repeated field of Rec with the field number no *)
RepeatedName(no) == IF no = 4 THEN "items" ELSE "tags"

(* the element x is what the update of the diffs of SpecApply leaves *)
Updated(no, x) ==
    IF no = 4 THEN x.t = "msg" /\ x.f.x = Str(<< "x" >>) ELSE x = Str(<< "t" >>)

(* C19: a repeated diff with a new length n leaves a list of length n: the *)
(* elements below n that it does not update are the old ones (trailing     *)
(* ones are removed), or placeholders where the old list was shorter, and  *)
(* the elements it updates hold the update.                                *)
C19_ResizeThenUpdates ==
    [][ (/\ act' = "apply"
         /\ AppliedOne(applied', "updateRepeated", {4, 5})
         /\ applied'.diff[1].value.hasNewLength) =>
          LET rd == applied'.diff[1].value
              no == applied'.diff[1].fieldNumber
              old == state.f[RepeatedName(no)].v
              new == state'.f[RepeatedName(no)].v
              updated == { rd.updateIndices[k] : k \in 1..Len(rd.updateIndices) }
          IN /\ Len(new) = rd.newLength
             /\ \A i \in 0..(rd.newLength - 1) :
                   i \notin updated => ArrGet(new, i) = ArrGet(old, i)
             /\ \A i \in updated : Updated(no, ArrGet(new, i)) ]_vars

(* the Leaf with the fields x and y *)
LeafOf(x, y) == [t |-> "msg", T |-> "Leaf", f |-> [x |-> Str(x), y |-> Str(y)]]

(* the oneof group g of Rec holds no case, the scalar a, or the message b *)
AtMostOneCase(g) ==
    /\ g.t = "oneof"
    /\ g.case \in {"", "a", "b"}
    /\ g.case = "" => g.value = Undef
    /\ g.case = "a" => g.value = Str(<< "a" >>)
    /\ g.case = "b" => g.value \in { LeafOf(x, y) : x \in {<< >>, << "x" >>},
                                                    y \in {<< >>, << "y" >>} }

(* C20: when a diff sets a member of the oneof group while the group holds *)
(* another member, the group then holds exactly the member set, with the   *)
(* value of the diff (a message member starts from a new message, nothing  *)
(* of the other member remains); and in every state the group holds at     *)
(* most one case.                                                          *)
C20_OneofExclusive ==
    [][ /\ AtMostOneCase(state.f.choice) /\ AtMostOneCase(state'.f.choice)
        /\ (/\ act' = "apply"
            /\ AppliedOne(applied', "updateSingular", {2, 3})
            /\ state.f.choice.case # "") =>
              LET fd == applied'.diff[1]
              IN /\ (fd.fieldNumber = 2 /\ state.f.choice.case = "b") =>
                       state'.f.choice =
                          [t |-> "oneof", case |-> "a", value |-> Str(<< "a" >>)]
                 /\ (fd.fieldNumber = 3 /\ state.f.choice.case = "a") =>
                       state'.f.choice \in
                          { [t |-> "oneof", case |-> "b", value |-> LeafOf(<< "x" >>, << >>)],
                            [t |-> "oneof", case |-> "b", value |-> LeafOf(<< >>, << "y" >>)] } ]_vars

C20_Witness ==
    /\ act = "apply"
    /\ AppliedOne(applied, "updateSingular", {3})
    /\ applied.was = "a"
    /\ state.f.choice = [t |-> "oneof", case |-> "b", value |-> LeafOf(<< >>, << "y" >>)]
    /\ Len(state.f.items.v) = 1

(***************************************************************************)
(* The sessions specification: two Cascade instances of one process, each  *)
(* with an open subscription.  The first is the instance of the loop       *)
(* specification; of the second (other) the projection, the tracking       *)
(* fields and the events of its last step are kept.  A message for one     *)
(* instance is handled by the loop body of that instance.                  *)
(***************************************************************************)
SessionDiffs(len) ==
    { RunStatusDiff("RUNNING"), RunStatusDiff("IDLE") }
    \cup { StepsDiff(n + 1, << n >>, << FullStep >>) : n \in { len } \cap 0..(MaxSteps - 1) }
    \cup { StepsDiff(-1, << i >>, << StepStatus("DONE") >>) : i \in 0..(len - 1) }

(* the tracking fields as static members of the class: what the loop body  *)
(* of the other instance records lands in the first instance as well       *)
AfterOtherShared(r, a) ==
    /\ other' = [state |-> r.v, tr |-> [a EXCEPT !.ev = << >>], emitted |-> a.ev]
    /\ SetTracking(a)

(* the loop body of the other instance writes its own fields: this.state   *)
(* and the tracking fields are instance fields that the constructor        *)
(* creates, and emit() reaches the listeners of that instance only         *)
AfterOther(r, a) ==
    /\ other' = [state |-> r.v, tr |-> [a EXCEPT !.ev = << >>], emitted |-> a.ev]
    /\ UNCHANGED tracking

(* the other instance takes a message with diff d *)
DeliverOther(d) ==
    /\ \E r \in { ApplyMessageDiff(other.state, d, "CascadeState") } :
          \E a \in { emitEvents(r.v, Emit(other.tr, [type |-> "raw_update"])) } :
             AfterOther(r, a)
    /\ emitted' = << >>
    /\ act' = "other"
    /\ err' = NoErr
    /\ calls' = << >>
    /\ UNCHANGED << state, isListening, pc, attempt, errListener, inflight, sent,
                    lastSeq, approvalCount, newCount, requests, streamed, applied,
                    evaluated, fetched, timer >>

DeliverSessionDiff == \E d \in SessionDiffs(CurLen) : Deliver(d)

DeliverOtherDiff == \E d \in SessionDiffs(Len(StepList(other.state))) : DeliverOther(d)

NextSessions ==
    \/ Listen
    \/ DeliverSessionDiff
    \/ DeliverOtherDiff

SpecSessions == Init /\ [][NextSessions]_vars

(***************************************************************************)
(* C21  Sessions are independent.  A step of one Cascade instance (a diff  *)
(* applied to it and its events derived) leaves the other instance as it   *)
(* was: its projection and its tracking fields are unchanged and no event  *)
(* is emitted on it.                                                       *)
(***************************************************************************)
C21_SessionsIndependent ==
    [][ /\ (act' = "other" =>
              (state' = state /\ Tracking' = Tracking /\ emitted' = << >>))
        /\ (act' # "other" => other' = other) ]_vars

(* both instances hold a step and differ in what they have seen: the first *)
(* saw its step complete, the other did not                                *)
C21_Witness ==
    /\ act = "other"
    /\ other.emitted # << >>
    /\ Len(StepList(state)) = 1
    /\ Len(StepList(other.state)) = 1
    /\ stepStatusMap # other.tr.ssm

(***************************************************************************)
(* types.ts: the step category of a step variant name.  STEP_CATEGORY_MAP  *)
(* is an object literal, so STEP_CATEGORY_MAP[stepCase] finds the own      *)
(* properties of the table and, for every other name, what the object      *)
(* inherits from Object.prototype; a name found in neither reads as        *)
(* undefined.                                                              *)
(***************************************************************************)
STEP_CATEGORY_MAP ==
    [userInput |-> "user_input", plannerResponse |-> "response",
     runCommand |-> "command", commandStatus |-> "command_status",
     sendCommandInput |-> "send_input", shellExec |-> "command",
     readTerminal |-> "command", viewFile |-> "file_view",
     viewFileOutline |-> "file_view", viewCodeItem |-> "file_view",
     listDirectory |-> "file_view", viewContentChunk |-> "file_view",
     writeToFile |-> "file_write", fileChange |-> "file_write",
     proposeCode |-> "file_write", fileBreakdown |-> "file_write",
     codeAction |-> "file_write", codeAcknowledgement |-> "file_write",
     deleteDirectory |-> "file_delete", move |-> "file_move",
     grepSearch |-> "search", find |-> "search", codeSearch |-> "search",
     internalSearch |-> "search", trajectorySearch |-> "search",
     findAllReferences |-> "search", openBrowserUrl |-> "browser",
     readBrowserPage |-> "browser", captureBrowserScreenshot |-> "browser",
     clickBrowserPixel |-> "browser", executeBrowserJavascript |-> "browser",
     listBrowserPages |-> "browser", browserGetDom |-> "browser",
     browserInput |-> "browser", browserMoveMouse |-> "browser",
     browserSelectOption |-> "browser", browserScrollUp |-> "browser",
     browserScrollDown |-> "browser", browserScroll |-> "browser",
     browserClickElement |-> "browser", browserPressKey |-> "browser",
     browserSubagent |-> "browser", browserResizeWindow |-> "browser",
     browserDragPixelToPixel |-> "browser", browserMouseWheel |-> "browser",
     browserMouseUp |-> "browser", browserMouseDown |-> "browser",
     browserRefreshPage |-> "browser",
     browserListNetworkRequests |-> "browser",
     browserGetNetworkRequest |-> "browser",
     captureBrowserConsoleLogs |-> "browser", searchWeb |-> "web",
     readUrlContent |-> "web", searchKnowledgeBase |-> "knowledge",
     lookupKnowledgeBase |-> "knowledge",
     knowledgeGeneration |-> "knowledge", knowledgeArtifacts |-> "knowledge",
     systemMessage |-> "system", ephemeralMessage |-> "system",
     errorMessage |-> "system", finish |-> "system", checkpoint |-> "system",
     taskBoundary |-> "system", notifyUser |-> "system",
     suggestedResponses |-> "system", lintDiff |-> "system",
     compile |-> "system", gitCommit |-> "system",
     generateImage |-> "system", mcpTool |-> "system",
     listResources |-> "system", readResource |-> "system",
     clipboard |-> "system", wait |-> "system", dummy |-> "other",
     generic |-> "other", planInput |-> "other", mquery |-> "other",
     memory |-> "other", retrieveMemory |-> "other",
     managerFeedback |-> "other", toolCallProposal |-> "other",
     toolCallChoice |-> "other", trajectoryChoice |-> "other",
     brainUpdate |-> "other", addAnnotation |-> "other",
     proposalFeedback |-> "other", conversationHistory |-> "other",
     kiInsertion |-> "other", agencyToolCall |-> "other",
     runExtensionCode |-> "other", workspaceApi |-> "other",
     compileApplet |-> "other", installAppletDependencies |-> "other",
     installAppletPackage |-> "other", setUpFirebase |-> "other",
     restartDevServer |-> "other", deployFirebase |-> "other",
     lintApplet |-> "other", defineNewEnvVariable |-> "other",
     checkDeployStatus |-> "other", postPrReview |-> "other"]

(* the names every object literal inherits from Object.prototype *)
ObjectPrototype ==
    { "constructor", "toString", "toLocaleString", "valueOf", "hasOwnProperty",
      "isPrototypeOf", "propertyIsEnumerable", "__proto__" }

(* what reading an inherited name gives: Object.prototype itself for       *)
(* __proto__, a function for the others; neither is a string               *)
Inherited(name) == IF name = "__proto__" THEN "[object Object]" ELSE "[Function]"

(* STEP_CATEGORY_MAP[stepCase]; the string "undefined" stands for the      *)
(* value undefined here and in the argument of getStepCategory             *)
Lookup(stepCase) ==
    CASE stepCase \in DOMAIN STEP_CATEGORY_MAP -> STEP_CATEGORY_MAP[stepCase]
      [] stepCase \in ObjectPrototype -> Inherited(stepCase)
      [] OTHER -> "undefined"

(* `if (!stepCase) return "other"', then the lookup with `?? "other"' *)
getStepCategory(stepCase) ==
    IF stepCase = "undefined" \/ stepCase = ""
    THEN "other"
    ELSE IF Lookup(stepCase) # "undefined" THEN Lookup(stepCase) ELSE "other"

(***************************************************************************)
(* The conversions specification: the pure conversions of types.ts, each   *)
(* called with every raw value or name of a bounded set.  The enum members *)
(* are known by name; UnknownRaw are raw values no member has.             *)
(***************************************************************************)
CortexStepStatus ==
    { "UNSPECIFIED", "GENERATING", "QUEUED", "PENDING", "RUNNING", "WAITING", "DONE",
      "INVALID", "CLEARED", "CANCELED", "ERROR", "INTERRUPTED" }

CascadeRunStatus == { "UNSPECIFIED", "IDLE", "RUNNING", "CANCELING", "BUSY" }

UnknownRaw == { "999", "-1" }

(* the names getStepCategory is called with: the table's own, undefined,   *)
(* the empty string, names of no step variant                              *)
StepCases ==
    DOMAIN STEP_CATEGORY_MAP
    \cup { "undefined", "", "nonExistentStep", "UserInput" }
    \cup ObjectPrototype

Evaluated(fn, arg, result) ==
    /\ evaluated' = [fn |-> fn, arg |-> arg, result |-> result]
    /\ act' = "evaluate"
    /\ emitted' = << >>
    /\ err' = NoErr
    /\ calls' = << >>
    /\ UNCHANGED << state, tracking, isListening, pc, attempt, errListener, inflight,
                    sent, lastSeq, approvalCount, newCount, requests, streamed,
                    applied, other, fetched, timer >>

EvalStepStatus ==
    \E raw \in CortexStepStatus \cup UnknownRaw :
        Evaluated("toStepStatus", raw, toStepStatus(Enum(raw)))

EvalRunStatus ==
    \E raw \in CascadeRunStatus \cup UnknownRaw :
        Evaluated("toRunStatus", raw, toRunStatus(Enum(raw)))

EvalStepCategory ==
    \E stepCase \in StepCases :
        Evaluated("getStepCategory", stepCase, getStepCategory(stepCase))

NextTypes ==
    \/ EvalStepStatus
    \/ EvalRunStatus
    \/ EvalStepCategory

SpecTypes == Init /\ [][NextTypes]_vars

(***************************************************************************)
(* C22  getStepCategory is total: called with a name of the static table   *)
(* it returns the category the table gives, and called with undefined or   *)
(* with any name that is not in the table it returns "other".              *)
(***************************************************************************)
C22_StepCategoryTotal ==
    evaluated.fn = "getStepCategory" =>
        evaluated.result = (IF evaluated.arg \in DOMAIN STEP_CATEGORY_MAP
                            THEN STEP_CATEGORY_MAP[evaluated.arg]
                            ELSE "other")

(***************************************************************************)
(* C23  toStepStatus and toRunStatus map every known raw enum value to its *)
(* own lowercase status name, which no other known value of the enum maps  *)
(* to, and every raw value outside the enum to "unspecified".              *)
(***************************************************************************)
LowerCase ==
    [UNSPECIFIED |-> "unspecified", GENERATING |-> "generating", QUEUED |-> "queued",
     PENDING |-> "pending", RUNNING |-> "running", WAITING |-> "waiting",
     DONE |-> "done", INVALID |-> "invalid", CLEARED |-> "cleared",
     CANCELED |-> "canceled", ERROR |-> "error", INTERRUPTED |-> "interrupted",
     IDLE |-> "idle", CANCELING |-> "canceling", BUSY |-> "busy"]

MapsEnum(ev, known) ==
    IF ev.arg \in known
    THEN /\ ev.result = LowerCase[ev.arg]
         /\ \A raw \in known \ { ev.arg } : LowerCase[raw] # ev.result
    ELSE ev.result = "unspecified"

C23_StatusNames ==
    /\ evaluated.fn = "toStepStatus" => MapsEnum(evaluated, CortexStepStatus)
    /\ evaluated.fn = "toRunStatus" => MapsEnum(evaluated, CascadeRunStatus)

(* toRunStatus was called with a raw value that no member of the enum has *)
C23_Witness ==
    /\ evaluated.fn = "toRunStatus"
    /\ evaluated.arg = "-1"
    /\ evaluated.result = "unspecified"

(***************************************************************************)
(* The field-operation specification: one call of applyMessageDiff on a    *)
(* Rec per behaviour.  The target is drawn from messages that earlier      *)
(* diffs filled (OpTargets); the diff is one of OpDiffs: clears, sets of   *)
(* scalar and message members, an element of a list or an entry of a map   *)
(* set to a message, index and value lists of any two lengths, and field   *)
(* operations on a field number the schema does not have.                  *)
(***************************************************************************)
UnknownField == 99

Clear(no, flag) == [fieldNumber |-> no, case |-> "clear", value |-> flag]

MapField(no, md) == [fieldNumber |-> no, case |-> "updateMap", value |-> md]

KeyDiff(key, sv) == [mapKey |-> StrSV(key), case |-> "updateSingular", value |-> sv]

LeafXY == MsgSV(<< SetField(1, StrSV(<< "x" >>)), SetField(2, StrSV(<< "y" >>)) >>)

(* a RepeatedDiff without newLength *)
Pairs(idxs, vals) ==
    [hasNewLength |-> FALSE, newLength |-> -1, updateIndices |-> idxs,
     updateValues |-> vals]

(* a RepeatedDiff that sets the length to n *)
Sized(n, idxs, vals) ==
    [hasNewLength |-> TRUE, newLength |-> n, updateIndices |-> idxs,
     updateValues |-> vals]

(* the diffs that filled the targets *)
OpSetups ==
    { << >>,
      << SetField(1, StrSV(<< "n" >>)), SetField(2, StrSV(<< "a" >>)),
         SetField(8, LeafXY),
         RepeatedField(5, Sized(2, << 0, 1 >>, << StrSV(<< "p" >>), StrSV(<< "q" >>) >>)) >>,
      << SetField(3, LeafXY), SetField(8, LeafY),
         RepeatedField(4, Sized(2, << 0 >>, << LeafXY >>)),
         MapField(7, << KeyDiff(<< "k" >>, LeafXY) >>),
         MapField(6, << KeyDiff(<< "k" >>, StrSV(<< "v" >>)) >>) >>,
      << SetField(3, LeafY), Clear(3, TRUE) >> }

OpTargets == { ApplyMessageDiff(New("Rec"), d, "Rec").v : d \in OpSetups }

ClearOps == { << Clear(no, flag) >> : no \in {1, 2, 3, 4, 6, 8}, flag \in BOOLEAN }

SetOps ==
    { << SetField(2, StrSV(<< "c" >>)) >>,
      << SetField(3, LeafX) >>, << SetField(3, LeafY) >>,
      << SetField(8, LeafX) >>, << SetField(8, LeafY) >> }

ElementOps ==
    { << RepeatedField(4, Pairs(<< i >>, << sv >>)) >> : i \in 0..1, sv \in { LeafX, LeafY } }
    \cup { << MapField(7, << KeyDiff(k, sv) >>) >> :
             k \in { << "k" >>, << "m" >> }, sv \in { LeafX, LeafY } }
    \cup { << MapField(6, << KeyDiff(<< "m" >>, StrSV(<< "w" >>)) >>) >> }

(* the k-th update value for field number no: tags get the k-th letter,    *)
(* items get x and y in turn                                               *)
PairValue(no, k) ==
    IF no = 5 THEN StrSV(<< Alphabet[k] >>)
    ELSE IF k % 2 = 1 THEN LeafX ELSE LeafY

(* n indices, ascending or descending *)
IndexLists(n) == { [k \in 1..n |-> k - 1], [k \in 1..n |-> n - k] }

(* index lists and value lists of any two lengths up to MaxLen *)
PairOps ==
    { << RepeatedField(no, Pairs(idxs, [k \in 1..m |-> PairValue(no, k)])) >> :
        no \in {4, 5}, idxs \in UNION { IndexLists(n) : n \in 0..MaxLen }, m \in 0..MaxLen }

UnknownOps ==
    { SetField(UnknownField, StrSV(<< "u" >>)), SetField(UnknownField, LeafX),
      Clear(UnknownField, TRUE), Clear(UnknownField, FALSE),
      RepeatedField(UnknownField, Pairs(<< 0 >>, << StrSV(<< "u" >>) >>)),
      MapField(UnknownField, << KeyDiff(<< "k" >>, StrSV(<< "u" >>)) >>) }

(* an unknown-field operation alone, last, first, or in the middle *)
WithUnknown ==
    UNION { { << u >>,
              << SetField(1, StrSV(<< "m" >>)), u >>,
              << u, SetField(8, LeafX) >>,
              << SetField(1, StrSV(<< "m" >>)), u, SetField(8, LeafX) >> } :
            u \in UnknownOps }

OpDiffs == ClearOps \cup SetOps \cup ElementOps \cup PairOps \cup WithUnknown

InitOps ==
    /\ state \in OpTargets
    /\ isListening = FALSE
    /\ lastEmittedText = << >>
    /\ lastEmittedThinking = << >>
    /\ lastEmittedStdout = << >>
    /\ lastEmittedStderr = << >>
    /\ emittedInteractions = {}
    /\ lastStatus = Enum("UNSPECIFIED")
    /\ lastStepCount = 0
    /\ stepStatusMap = << >>
    /\ lastCascadeStatus = Enum("UNSPECIFIED")
    /\ pc = "idle"
    /\ attempt = 0
    /\ errListener = FALSE
    /\ inflight = << >>
    /\ emitted = << >>
    /\ act = "init"
    /\ err = NoErr
    /\ sent = 0
    /\ lastSeq = 0
    /\ approvalCount = [i \in 0..(MaxSteps - 1) |-> 0]
    /\ newCount = [i \in 0..(MaxSteps - 1) |-> 0]
    /\ requests = [i \in 0..(MaxSteps - 1) |-> NoRequest]
    /\ calls = << >>
    /\ streamed = [txt |-> << >>, thk |-> << >>, out |-> << >>, err |-> << >>]
    /\ applied = NoneApplied
    /\ other = NewCascade
    /\ evaluated = NoneEvaluated
    /\ fetched = NoneFetched
    /\ timer = 0

(* the one call of the behaviour *)
ApplyOp ==
    /\ act = "init"
    /\ \E d \in OpDiffs : \E r \in { ApplyMessageDiff(state, d, "Rec") } : Applied(d, r)

NextOps == ApplyOp

SpecOps == InitOps /\ [][NextOps]_vars

(***************************************************************************)
(* C24  When the index list and the value list of a repeated diff differ   *)
(* in length, applyRepeatedDiff applies the first min(#indices, #values)   *)
(* pairs, leaves every other element as it was, and returns normally,      *)
(* whichever of the two lists is the longer one.                           *)
(***************************************************************************)
Smaller(a, b) == IF a < b THEN a ELSE b

(* the element x holds the update value sv: the scalar itself, or a Leaf    *)
(* with the field set that the message diff of sv names                    *)
HoldsPair(sv, x) ==
    IF sv.case # "messageValue" THEN x = sv.value
    ELSE /\ x.t = "msg"
         /\ \A j \in 1..Len(sv.value) :
               x.f[IF sv.value[j].fieldNumber = 1 THEN "x" ELSE "y"]
                  = sv.value[j].value.value

C24_MismatchAppliesAlignedPairs ==
    [][ (/\ act' = "apply"
         /\ AppliedOne(applied', "updateRepeated", {4, 5})
         /\ ~applied'.diff[1].value.hasNewLength) =>
          LET rd == applied'.diff[1].value
              no == applied'.diff[1].fieldNumber
              old == state.f[RepeatedName(no)].v
              new == state'.f[RepeatedName(no)].v
              aligned == Smaller(Len(rd.updateIndices), Len(rd.updateValues))
              updated == { rd.updateIndices[k] : k \in 1..aligned }
          IN /\ applied'.ok
             /\ \A k \in 1..aligned : HoldsPair(rd.updateValues[k], ArrGet(new, rd.updateIndices[k]))
             /\ \A i \in 0..(Len(old) + MaxLen) :
                   i \notin updated => ArrGet(new, i) = ArrGet(old, i) ]_vars

(***************************************************************************)
(* C25  Only a set operation on a member changes which oneof case is       *)
(* active.  A diff that is a single clear (with either flag), repeated or  *)
(* map operation, or an operation on an unknown field number, leaves the   *)
(* case of the group as it was; and a clear addressed to a member that is  *)
(* not the active one leaves the whole group (case and value) as it was.   *)
(***************************************************************************)
MemberName(no) == IF no = 2 THEN "a" ELSE "b"

C25_OnlySetChangesCase ==
    [][ (/\ act' = "apply"
         /\ Len(applied'.diff) = 1
         /\ \/ applied'.diff[1].case \in { "clear", "updateRepeated", "updateMap" }
            \/ applied'.diff[1].fieldNumber = UnknownField) =>
          LET fd == applied'.diff[1]
          IN /\ state'.f.choice.case = state.f.choice.case
             /\ (/\ fd.case = "clear"
                 /\ fd.fieldNumber \in {2, 3}
                 /\ state.f.choice.case # MemberName(fd.fieldNumber)) =>
                   state'.f.choice = state.f.choice ]_vars

(***************************************************************************)
(* C26  A field operation on a field number the schema does not have is    *)
(* skipped: the call returns normally, and the target ends as if the diff  *)
(* had been applied without that operation, so the operations before and   *)
(* after it are applied and the unknown one changes nothing.               *)
(***************************************************************************)
IsKnown(fd) == fd.fieldNumber # UnknownField

C26_UnknownFieldSkipped ==
    [][ (/\ act' = "apply"
         /\ \E k \in 1..Len(applied'.diff) : ~IsKnown(applied'.diff[k])) =>
          LET rest == ApplyMessageDiff(state, SelectSeq(applied'.diff, IsKnown), "Rec")
          IN /\ applied'.ok
             /\ rest.ok
             /\ state' = rest.v
             /\ Len(applied'.diff) = 1 => state' = state ]_vars

(* an unknown-field operation stood between two others, and both are seen  *)
(* in the target                                                           *)
C26_Witness ==
    /\ act = "apply"
    /\ Len(applied.diff) = 3
    /\ ~IsKnown(applied.diff[2])
    /\ applied.ok
    /\ state.f.name = Str(<< "m" >>)
    /\ state.f.child.t = "msg"
    /\ state.f.child.f.x = Str(<< "x" >>)

(***************************************************************************)
(* C27  A message set on a slot (a message field, a oneof member, an       *)
(* element of a list, an entry of a map) that holds a message of that case *)
(* changes it in place: every field the sub-diff does not name keeps the   *)
(* value it had.  Only when the slot holds no such value does the slot     *)
(* get a new, empty message with the sub-diff applied.  (A message is its  *)
(* value here; that the object is reused shows in the fields it keeps.)    *)
(***************************************************************************)
(* the slot the field operation fd addresses, in the Rec st *)
Slot(st, fd) ==
    CASE fd.fieldNumber = 8 -> st.f.child
      [] fd.fieldNumber = 3 -> IF st.f.choice.case = "b" THEN st.f.choice.value ELSE Undef
      [] fd.fieldNumber = 4 -> ArrGet(st.f.items.v, fd.value.updateIndices[1])
      [] fd.fieldNumber = 7 ->
           LET pos == KeyPos(st.f.leaves.keys, fd.value[1].mapKey.value)
           IN IF pos = 0 THEN Undef ELSE st.f.leaves.vals[pos]

(* the message diff the field operation fd carries *)
SubDiff(fd) ==
    CASE fd.case = "updateSingular" -> fd.value.value
      [] fd.case = "updateRepeated" -> fd.value.updateValues[1].value
      [] fd.case = "updateMap" -> fd.value[1].value.value

(* fd sets one slot to a message whose sub-diff names one field of Leaf *)
SetsMessage(fd) ==
    /\ \/ fd.case = "updateSingular" /\ fd.fieldNumber \in {3, 8}
          /\ fd.value.case = "messageValue"
       \/ fd.case = "updateRepeated" /\ fd.fieldNumber = 4
          /\ Len(fd.value.updateIndices) = 1 /\ Len(fd.value.updateValues) = 1
       \/ fd.case = "updateMap" /\ fd.fieldNumber = 7
    /\ Len(SubDiff(fd)) = 1

TrajectoryOf(n) ==
    ApplyMessageDiff(New("Trajectory"),
                     << SetField(1, StrSV(<< "t" >>)),
                        RepeatedField(2, Sized(n, [k \in 1..n |-> k - 1],
                                               [k \in 1..n |-> MsgSV(StepStatus("DONE"))])) >>,
                     "Trajectory").v

(* what response.trajectory may hold: nothing, or a trajectory *)
Snapshots == { Undef } \cup { TrajectoryOf(n) : n \in 0..1 }

HistoryDiffs(len) ==
    { RunStatusDiff("RUNNING") }
    \cup { StepsDiff(n + 1, << n >>, << StepStatus("WAITING") \o StepInteraction(2) >>) :
             n \in { len } \cap 0..(MaxSteps - 1) }
    \cup { StepsDiff(-1, << i >>, << StepStatus("DONE") >>) : i \in 0..(len - 1) }
    \cup { StepsDiff(n, << >>, << >>) : n \in 0..(len - 1) }

(* getHistory() that stores whatever the response holds *)
GetHistoryAlways(trajectory) ==
    /\ state' = [state EXCEPT !.f.trajectory = trajectory]
    /\ fetched' = [called |-> TRUE, trajectory |-> trajectory]
    /\ act' = "getHistory"
    /\ emitted' = << >>
    /\ err' = NoErr
    /\ calls' = << >>
    /\ UNCHANGED << tracking, isListening, pc, attempt, errListener, inflight, sent,
                    lastSeq, approvalCount, newCount, requests, streamed, applied,
                    other, evaluated, timer >>

(* Cascade.getHistory() from the response on; trajectory is               *)
(* response.trajectory                                                     *)
GetHistory(trajectory) ==
    /\ state' = (IF Truthy(trajectory)
                 THEN [state EXCEPT !.f.trajectory = trajectory]
                 ELSE state)
    /\ fetched' = [called |-> TRUE, trajectory |-> trajectory]
    /\ act' = "getHistory"
    /\ emitted' = << >>
    /\ err' = NoErr
    /\ calls' = << >>
    /\ UNCHANGED << tracking, isListening, pc, attempt, errListener, inflight, sent,
                    lastSeq, approvalCount, newCount, requests, streamed, applied,
                    other, evaluated, timer >>

(* Cascade.sendMessage() and Cascade.cancel(): one request to the server   *)
Request(method) ==
    /\ act' = method
    /\ emitted' = << >>
    /\ err' = NoErr
    /\ calls' = << >>
    /\ UNCHANGED << state, tracking, isListening, pc, attempt, errListener, inflight,
                    sent, lastSeq, approvalCount, newCount, requests, streamed,
                    applied, other, evaluated, fetched, timer >>

SendMessage == Request("sendMessage")

Cancel == Request("cancel")

FetchHistory == \E trajectory \in Snapshots : GetHistory(trajectory)

DeliverHistoryDiff == \E d \in HistoryDiffs(CurLen) : Deliver(d)

NextHistory ==
    \/ Listen
    \/ DeliverHistoryDiff
    \/ FetchHistory
    \/ SendMessage
    \/ Cancel
    \/ ApproveRequest
    \/ DenyRequest

SpecHistory == Init /\ [][NextHistory]_vars

(***************************************************************************)
(* C28  The step list of the projection is append-only and index-stable:   *)
(* no step of the program makes it shorter, and an index that holds a step *)
(* holds a step afterwards.                                                *)
(***************************************************************************)
C28_StepsAppendOnly ==
    [][ /\ Len(StepList(state')) >= Len(StepList(state))
        /\ \A i \in 1..Len(StepList(state)) :
              Truthy(StepList(state)[i]) =>
                 (i <= Len(StepList(state')) /\ Truthy(StepList(state')[i])) ]_vars

(***************************************************************************)
(* C29  While a subscription is active the projection is changed only by   *)
(* the loop applying a diff: no step of getHistory, sendMessage, approve,  *)
(* deny or cancel changes it.                                              *)
(***************************************************************************)
C29_OnlyTheLoopWritesProjection ==
    [][ (isListening /\ state' # state) => act' \in { "diff", "diff_threw" } ]_vars

(***************************************************************************)
(* C30  (as stated)  After getHistory() returns, every field of the        *)
(* projection that the fetched snapshot has a field for equals that field  *)
(* of the snapshot.                                                        *)
(***************************************************************************)
C30_HistoryEqualsSnapshot ==
    [][ act' = "getHistory" => state'.f.trajectory = fetched'.trajectory ]_vars

(***************************************************************************)
(* C30  (amended)  After getHistory() returns a snapshot that holds a      *)
(* trajectory, the trajectory of the projection is that of the snapshot;   *)
(* a snapshot without a trajectory leaves the projection's trajectory as   *)
(* it was.  The run status and the tracking fields stay as they were and   *)
(* no event is emitted.                                                    *)
(***************************************************************************)
C30_HistoryStoresTrajectory ==
    [][ act' = "getHistory" =>
          /\ fetched'.called
          /\ state'.f.trajectory = (IF fetched'.trajectory # Undef
                                    THEN fetched'.trajectory
                                    ELSE state.f.trajectory)
          /\ state'.f.status = state.f.status
          /\ Tracking' = Tracking
          /\ emitted' = << >> ]_vars

(* a snapshot with one completed step replaced a projection that a diff    *)
(* had filled before: the run status of the diff is still there            *)
C30_Witness ==
    /\ act = "getHistory"
    /\ fetched.trajectory = TrajectoryOf(1)
    /\ state.f.trajectory = TrajectoryOf(1)
    /\ state.f.status = Enum("RUNNING")
    /\ lastStepCount = 1
    /\ 0 \in DOMAIN stepStatusMap
    /\ stepStatusMap[0] = Enum("WAITING")


(***************************************************************************)
(* How a call of listen() ends.  The loop is left by `break' on a terminal *)
(* error (pc = "idle") or by an exception that escapes the catch block     *)
(* (pc = "crashed"); in both cases the promise listen() returned has       *)
(* settled.                                                                *)
(***************************************************************************)

(* C31: whenever the call of listen() that started the loop has settled,   *)
(* whether by a terminal error or by an exception escaping from the        *)
(* emission of an event, isListening is false again.                       *)
C31_SettledLoopClearsFlag ==
    pc \in {"idle", "crashed"} => ~isListening


(***************************************************************************)
(* The loop with a consumer: listen() called again while the flag is set,  *)
(* and listeners that throw.  EventEmitter.emit calls the listeners        *)
(* synchronously, so an exception of a listener surfaces in listen() at    *)
(* the emit call: inside the try block for "raw_update" and for the events *)
(* of emitEvents().                                                        *)
(***************************************************************************)

(* listen() called while isListening is set: `if (this.isListening)       *)
(* return;'                                                                *)
ListenAgain ==
    /\ isListening
    /\ emitted' = << >>
    /\ act' = "listen_returned"
    /\ err' = NoErr
    /\ calls' = << >>
    /\ UNCHANGED << state, tracking, isListening, pc, attempt, errListener, inflight,
                    sent, lastSeq, approvalCount, newCount, requests, streamed,
                    applied, other, evaluated, fetched, timer >>

(* the events of a diff a listener can throw at before any tracking field  *)
(* is written: "raw_update" (before applyMessageDiff) and "update" (the    *)
(* first emit of emitEvents)                                               *)
ThrowPoints == {"raw_update", "update"}

(* a message with diff d arrives and the listener of event `at' throws an  *)
(* Error (which has no code): the rest of the loop body is skipped and the *)
(* catch block of listen() runs                                            *)
ListenerThrows(d, at) ==
    /\ pc = "stream"
    /\ inflight = << >>
    /\ \E r \in { ApplyMessageDiff(state, d, "CascadeState") } :
          /\ r.ok
          /\ IF at = "raw_update"
             THEN /\ state' = state
                  /\ CatchNonTerminal(<< [type |-> "raw_update"] >>)
             ELSE /\ state' = r.v
                  /\ CatchNonTerminal(<< [type |-> "raw_update"], [type |-> "update"] >>)
    /\ act' = "listener_threw"
    /\ err' = NoErr
    /\ calls' = << >>
    /\ UNCHANGED << tracking, attempt, errListener, inflight, sent, lastSeq,
                    approvalCount, newCount, requests, streamed, applied,
                    other, evaluated, fetched >>

DeliverLoopDiff == \E d \in LoopDiffs : Deliver(d)

DeliverToThrowingListener ==
    \E d \in LoopDiffs, at \in ThrowPoints : ListenerThrows(d, at)

NextLoop ==
    \/ Listen
    \/ ListenAgain
    \/ OnError
    \/ DeliverLoopDiff
    \/ DeliverToThrowingListener
    \/ StreamEnd
    \/ Fail
    \/ BackoffElapsed

SpecLoop == Init /\ [][NextLoop]_vars

(* C32: an exception thrown by a listener while the events of a diff are   *)
(* emitted does not end the current subscription and starts no backoff:    *)
(* the loop stays in the for await loop of the same stream.                *)
C32_ListenerExceptionKeepsStream ==
    [][ act' = "listener_threw" => pc' = "stream" ]_vars

(* C35: a listen() call made while a loop is running, streaming or waiting *)
(* in backoff, returns without opening a subscription: the loop, its       *)
(* attempt counter, its stream and its timer are as before.                *)
C35_OneLoopPerCascade ==
    [][ (pc \in {"stream", "backoff"} /\ act' \in {"listen", "listen_returned"})
        => /\ act' = "listen_returned"
           /\ UNCHANGED << pc, attempt, inflight, sent, lastSeq, timer, isListening,
                           state, tracking >> ]_vars

(* C35 happens: listen() was called during the backoff wait and returned *)
C35_Witness ==
    /\ act = "listen_returned"
    /\ pc = "backoff"
    /\ attempt = 1

(* C39: the retry timer is always set to the same delay; the wait is only  *)
(* left by opening the next subscription, with the attempt counter one     *)
(* higher, however many attempts failed before; every received message     *)
(* sets the counter to zero.                                               *)
C39_FixedDelayUnboundedRetry ==
    [][ /\ (pc # "backoff" /\ pc' = "backoff") => timer' = retryDelay
        /\ (pc = "backoff" /\ pc' # "backoff")
              => (pc' = "stream" /\ attempt' = attempt + 1 /\ act' = "subscribe")
        /\ (pc = "backoff" /\ attempt < MaxAttempt) => ENABLED BackoffElapsed
        /\ act' \in {"msg", "diff"} => attempt' = 0 ]_vars

(* C39 happens: a subscription was opened after MaxAttempt - 1 failed      *)
(* attempts in a row, and the wait before it was the fixed delay           *)
C39_Witness ==
    /\ act = "subscribe"
    /\ attempt = MaxAttempt


(* C33: a step:update event for a step index is preceded, in the same      *)
(* session, by a step:new event for that index, also when the index first  *)
(* appeared as an empty placeholder and was filled in by a later diff.     *)
C33_UpdateAfterNew ==
    \A i \in 0..(MaxSteps - 1) :
        EventsFor(emitted, "step:update", i) > 0 => newCount[i] >= 1


(***************************************************************************)
(* The rewrite specification: the channels of a step are set to values     *)
(* that need not extend what they held: shorter ones, ones of the same     *)
(* length with other characters, and a modifiedResponse that is not the    *)
(* response.  The trajectory has one step, a planner response or a         *)
(* command, created by the first diff and patched by the later ones.       *)
(***************************************************************************)
Rewritten == << "v", "w", "x", "y", "z" >>

RewrittenPrefix(n) == SubSeq(Rewritten, 1, n)

(* Step diffs that set one channel of a planner response *)
PlannerRewrites ==
    { StepResponse(Prefix(n)) : n \in 0..MaxText }
    \cup { StepModifiedResponse(RewrittenPrefix(n)) : n \in 0..MaxText }
    \cup { StepThinking(Prefix(n)) : n \in 0..MaxText }
    \cup { StepThinking(RewrittenPrefix(MaxText)) }

(* Step diffs that set one channel of a command *)
CommandRewrites ==
    { StepStdout(Prefix(n)) : n \in 0..MaxText }
    \cup { StepStdout(RewrittenPrefix(n)) : n \in 1..MaxText }
    \cup { StepStderr(Prefix(n)) : n \in 0..MaxText }

(* diffs that create step 0 or patch it according to its kind *)
RewriteDiffs(st, len) ==
    IF len = 0
    THEN { StepsDiff(1, << 0 >>, << sd >>) : sd \in PlannerRewrites \cup CommandRewrites }
    ELSE { StepsDiff(-1, << 0 >>, << sd >>) :
             sd \in (IF StepCase(ArrGet(StepList(st), 0)) = "plannerResponse"
                     THEN PlannerRewrites ELSE CommandRewrites) }

DeliverRewriteDiff == \E d \in RewriteDiffs(state, CurLen) : Deliver(d)

NextRewrites ==
    \/ Listen
    \/ DeliverRewriteDiff

SpecRewrites == Init /\ [][NextRewrites]_vars

(* C34: in every pass and for each channel of every step: when the current *)
(* value is not longer than the tracked one, no delta event is emitted for *)
(* the channel and the tracked value stays; no pass raises an exception    *)
(* and the tracked length of a channel never decreases.                    *)
C34_ShorterValueIsIgnored ==
    [][ act' \in {"diff", "diff_threw"} =>
          /\ act' = "diff"
          /\ pc' = "stream"
          /\ \A i \in 0..(MaxSteps - 1), ch \in Channels :
                LET cur == ChannelValue(state', i, ch)
                    tracked == RecGet(TrackedOf(ch), i)
                IN /\ Len(RecGet(TrackedOf(ch)', i)) >= Len(tracked)
                   /\ Len(cur) <= Len(tracked)
                        => /\ DeltaEvents(emitted', i, ch) = {}
                           /\ RecGet(TrackedOf(ch)', i) = tracked ]_vars

(* C34 happens: stdout of the command was cut from MaxText characters to   *)
(* one, and the response text of a planner step was replaced by one of the *)
(* same length                                                             *)
C34_Witness ==
    /\ act = "diff"
    /\ \/ /\ ChannelValue(state, 0, "out") = Prefix(1)
          /\ RecGet(lastEmittedStdout, 0) = Prefix(MaxText)
          /\ DeltaEvents(emitted, 0, "out") = {}
       \/ /\ ChannelValue(state, 0, "txt") = RewrittenPrefix(MaxText)
          /\ RecGet(lastEmittedText, 0) = Prefix(MaxText)
          /\ DeltaEvents(emitted, 0, "txt") = {}

(* the last text:delta event for step i among the events ev, 0 when none *)
LastTextDelta(ev, i) ==
    LET ks == DeltaEvents(ev, i, "txt")
    IN IF ks = {} THEN 0 ELSE CHOOSE k \in ks : \A j \in ks : j <= k

(* C36: the text of a planner response step is modifiedResponse when that  *)
(* is not empty and response otherwise, and the text:delta deltas emitted  *)
(* for the step so far, put one after the other, are the fullText of the   *)
(* last text:delta event, also when the source of the text has switched    *)
(* from response to modifiedResponse.                                      *)
C36_DeltasConcatenateAcrossSwitch ==
    \A i \in 0..(MaxSteps - 1) :
        LET k == LastTextDelta(emitted, i)
            planner == StepValue(ArrGet(StepList(state), i))
            modifiedResponse == StrOf(Field(planner, "modifiedResponse"))
        IN k # 0 =>
             /\ emitted[k].fullText = (IF modifiedResponse # << >> THEN modifiedResponse
                                       ELSE StrOf(Field(planner, "response")))
             /\ RecGet(streamed.txt, i) = emitted[k].fullText


(***************************************************************************)
(* The key-operation specification: one call of applyMessageDiff on a Rec  *)
(* per behaviour, with the operations that remove or leave things: clears  *)
(* of fields and of map entries with either flag, sets of map entries, and *)
(* field operations that carry no operation at all.  The targets are       *)
(* messages that earlier diffs filled; their maps hold keys that are       *)
(* array indices ("1", "2") and keys that are not, created in an order     *)
(* that is not the numeric one, and one target has its scalar map cleared. *)
(***************************************************************************)
KeyClear(key, flag) == [mapKey |-> StrSV(key), case |-> "clear", value |-> flag]

(* a FieldDiff whose oneof `diff' is not set *)
Unset(no) == [fieldNumber |-> no, case |-> "", value |-> Undef]

(* the diffs that filled the targets *)
KeySetups ==
    { << >>,
      << MapField(6, << KeyDiff(<< "b" >>, StrSV(<< "v" >>)),
                        KeyDiff(<< "2" >>, StrSV(<< "w" >>)) >>),
         MapField(7, << KeyDiff(<< "k" >>, LeafXY), KeyDiff(<< "b" >>, LeafY) >>) >>,
      << MapField(6, << KeyDiff(<< "2" >>, StrSV(<< "v" >>)),
                        KeyDiff(<< "k" >>, StrSV(<< "v" >>)),
                        KeyDiff(<< "1" >>, StrSV(<< "w" >>)) >>),
         MapField(7, << KeyDiff(<< "2" >>, LeafX), KeyDiff(<< "1" >>, LeafXY) >>) >>,
      << SetField(1, StrSV(<< "n" >>)), SetField(2, StrSV(<< "a" >>)),
         MapField(6, << KeyDiff(<< "k" >>, StrSV(<< "v" >>)) >>), Clear(6, TRUE) >>,
      << SetField(1, StrSV(<< "n" >>)), SetField(3, LeafXY), SetField(8, LeafXY),
         RepeatedField(4, Sized(1, << 0 >>, << LeafXY >>)),
         RepeatedField(5, Sized(2, << 0, 1 >>, << StrSV(<< "p" >>), StrSV(<< "q" >>) >>)),
         MapField(7, << KeyDiff(<< "k" >>, LeafX) >>) >> }

KeyTargets == { ApplyMessageDiff(New("Rec"), d, "Rec").v : d \in KeySetups }

Keys == { << "b" >>, << "k" >>, << "1" >>, << "2" >> }

FieldClears == { << Clear(no, flag) >> : no \in 1..8, flag \in BOOLEAN }

UnsetOps == { << Unset(no) >> : no \in 1..8 }

(* one key of a map set or cleared *)
KeyOps ==
    { << MapField(6, << KeyDiff(k, StrSV(<< "u" >>)) >>) >> : k \in Keys }
    \cup { << MapField(7, << KeyDiff(k, sv) >>) >> : k \in Keys, sv \in { LeafX, LeafY } }
    \cup { << MapField(no, << KeyClear(k, flag) >>) >> :
             no \in {6, 7}, k \in Keys, flag \in BOOLEAN }

(* two keys in one map diff: a set and a removal, a removal and a set of   *)
(* the same key, and no key at all                                         *)
KeyPairOps ==
    { << MapField(6, << KeyDiff(<< "1" >>, StrSV(<< "u" >>)), KeyClear(<< "b" >>, TRUE) >>) >>,
      << MapField(6, << KeyClear(<< "2" >>, TRUE), KeyDiff(<< "2" >>, StrSV(<< "u" >>)) >>) >>,
      << MapField(7, << KeyClear(<< "k" >>, TRUE), KeyDiff(<< "k" >>, LeafY) >>) >>,
      << MapField(7, << KeyDiff(<< "1" >>, LeafY), KeyClear(<< "2" >>, FALSE) >>) >>,
      << MapField(6, << >>) >>, << MapField(7, << >>) >> }

KeyDiffs == FieldClears \cup UnsetOps \cup KeyOps \cup KeyPairOps

InitKeys ==
    /\ state \in KeyTargets
    /\ isListening = FALSE
    /\ lastEmittedText = << >>
    /\ lastEmittedThinking = << >>
    /\ lastEmittedStdout = << >>
    /\ lastEmittedStderr = << >>
    /\ emittedInteractions = {}
    /\ lastStatus = Enum("UNSPECIFIED")
    /\ lastStepCount = 0
    /\ stepStatusMap = << >>
    /\ lastCascadeStatus = Enum("UNSPECIFIED")
    /\ pc = "idle"
    /\ attempt = 0
    /\ errListener = FALSE
    /\ inflight = << >>
    /\ emitted = << >>
    /\ act = "init"
    /\ err = NoErr
    /\ sent = 0
    /\ lastSeq = 0
    /\ approvalCount = [i \in 0..(MaxSteps - 1) |-> 0]
    /\ newCount = [i \in 0..(MaxSteps - 1) |-> 0]
    /\ requests = [i \in 0..(MaxSteps - 1) |-> NoRequest]
    /\ calls = << >>
    /\ streamed = [txt |-> << >>, thk |-> << >>, out |-> << >>, err |-> << >>]
    /\ applied = NoneApplied
    /\ other = NewCascade
    /\ evaluated = NoneEvaluated
    /\ fetched = NoneFetched
    /\ timer = 0

(* the one call of the behaviour *)
ApplyKeyOp ==
    /\ act = "init"
    /\ \E d \in KeyDiffs : \E r \in { ApplyMessageDiff(state, d, "Rec") } : Applied(d, r)

NextKeys == ApplyKeyOp

SpecKeys == InitKeys /\ [][NextKeys]_vars

(* the property of a Rec that holds the field with number no *)
RecProperty(no) ==
    CASE no = 1 -> "name" [] no \in {2, 3} -> "choice" [] no = 4 -> "items"
      [] no = 5 -> "tags" [] no = 6 -> "attrs" [] no = 7 -> "leaves" [] no = 8 -> "child"

(* the value the field with number no holds in the Rec st *)
HeldBy(st, no) ==
    IF no \in {2, 3}
    THEN (IF st.f.choice.case = (IF no = 2 THEN "a" ELSE "b") THEN st.f.choice.value
          ELSE Undef)
    ELSE st.f[RecProperty(no)]

(* the entries of the map field with number no of st; none when the field *)
(* holds no map                                                            *)
EntriesOf(st, no) ==
    LET m == st.f[RecProperty(no)]
    IN IF m.t = "map" THEN [i \in 1..Len(m.keys) |-> << m.keys[i], m.vals[i] >>] ELSE << >>

(* the entries whose key is not in ks, in the order of the map *)
EntriesBut(entries, ks) == SelectSeq(entries, LAMBDA e : e[1] \notin ks)

(* the value of the entry with the given key, Undef when there is none *)
EntryOf(entries, key) ==
    IF \E i \in 1..Len(entries) : entries[i][1] = key
    THEN entries[CHOOSE i \in 1..Len(entries) : entries[i][1] = key][2]
    ELSE Undef

(* every property of the Rec but the one of field number no is as before *)
RestUnchanged(before, after, no) ==
    \A n \in DOMAIN before.f \ { RecProperty(no) } : after.f[n] = before.f[n]

(* C37 as stated: a Clear with flag true leaves the field, or the map      *)
(* entry, without a value; a Clear with flag false, on a field or on a map *)
(* entry, leaves the whole target record as it was.                        *)
C37_ClearFalseChangesNothing ==
    [][ (act' = "apply" /\ Len(applied'.diff) = 1) =>
          LET fd == applied'.diff[1]
              kd == fd.value[1]
          IN /\ (fd.case = "clear" /\ fd.value)
                   => (applied'.ok /\ HeldBy(state', fd.fieldNumber) = Undef)
             /\ (fd.case = "clear" /\ ~fd.value) => (applied'.ok /\ state' = state)
             /\ (fd.case = "updateMap" /\ Len(fd.value) = 1 /\ kd.case = "clear")
                   => /\ applied'.ok
                      /\ IF kd.value
                         THEN EntryOf(EntriesOf(state', fd.fieldNumber), kd.mapKey.value) = Undef
                         ELSE state' = state ]_vars

(* C37, amended: a Clear with flag true leaves the field, or the map       *)
(* entry, without a value; a Clear with flag false on a field leaves the   *)
(* whole record as it was; a Clear with flag false on a map entry leaves   *)
(* every entry of the map and every other field as they were, and the      *)
(* whole record when the field holds a map.                                *)
C37_ClearActsOnlyWhenTrue ==
    [][ (act' = "apply" /\ Len(applied'.diff) = 1) =>
          LET fd == applied'.diff[1]
              kd == fd.value[1]
          IN /\ (fd.case = "clear" /\ fd.value)
                   => (applied'.ok /\ HeldBy(state', fd.fieldNumber) = Undef)
             /\ (fd.case = "clear" /\ ~fd.value) => (applied'.ok /\ state' = state)
             /\ (fd.case = "updateMap" /\ Len(fd.value) = 1 /\ kd.case = "clear")
                   => /\ applied'.ok
                      /\ IF kd.value
                         THEN EntryOf(EntriesOf(state', fd.fieldNumber), kd.mapKey.value) = Undef
                         ELSE /\ EntriesOf(state', fd.fieldNumber)
                                   = EntriesOf(state, fd.fieldNumber)
                              /\ RestUnchanged(state, state', fd.fieldNumber)
                              /\ HeldBy(state, fd.fieldNumber) # Undef => state' = state ]_vars

(* C37 happens: a Clear with flag false named a key the map holds, and the *)
(* entry is still there                                                    *)
C37_Witness ==
    /\ act = "apply"
    /\ applied.diff = << MapField(6, << KeyClear(<< "b" >>, FALSE) >>) >>
    /\ applied.ok
    /\ EntryOf(EntriesOf(state, 6), Str(<< "b" >>)) = Str(<< "v" >>)

(* the keys a map diff names *)
NamedKeys(md) == { md[i].mapKey.value : i \in 1..Len(md) }

(* the Leaf e holds what the Leaf (or nothing) before holds, with the      *)
(* fields the message diff sub names set to its values                     *)
MergedLeaf(before, sub, e) ==
    /\ e.t = "msg"
    /\ \A n \in {1, 2} :
          LET name == IF n = 1 THEN "x" ELSE "y"
              js == { j \in 1..Len(sub) : sub[j].fieldNumber = n }
          IN IF js # {} THEN \E j \in js : e.f[name] = sub[j].value.value
             ELSE e.f[name] = (IF before.t = "msg" THEN before.f[name] ELSE Str(<< >>))

(* C38: a map diff changes only the entries of the keys it names: the      *)
(* other entries keep their values and their order, and so does every      *)
(* other field.  Of a single key operation: a Set on a message-valued      *)
(* entry merges the sub-diff into the entry, a Set on a scalar entry       *)
(* replaces the value, a Clear with flag true removes the key.             *)
C38_KeyOperationIsLocal ==
    [][ (/\ act' = "apply"
         /\ Len(applied'.diff) = 1
         /\ applied'.diff[1].case = "updateMap") =>
          LET fd == applied'.diff[1]
              md == fd.value
              before == EntriesOf(state, fd.fieldNumber)
              after == EntriesOf(state', fd.fieldNumber)
          IN /\ applied'.ok
             /\ EntriesBut(after, NamedKeys(md)) = EntriesBut(before, NamedKeys(md))
             /\ RestUnchanged(state, state', fd.fieldNumber)
             /\ Len(md) = 1 =>
                   LET key == md[1].mapKey.value
                   IN CASE md[1].case = "updateSingular" /\ fd.fieldNumber = 6 ->
                             EntryOf(after, key) = md[1].value.value
                        [] md[1].case = "updateSingular" /\ fd.fieldNumber = 7 ->
                             MergedLeaf(EntryOf(before, key), md[1].value.value,
                                        EntryOf(after, key))
                        [] md[1].case = "clear" /\ md[1].value -> EntryOf(after, key) = Undef
                        [] OTHER -> EntryOf(after, key) = EntryOf(before, key) ]_vars

(* C38 happens: the key "1" was set on a map that held "2" and "b"; both   *)
(* kept their values and their order                                       *)
C38_Witness ==
    /\ act = "apply"
    /\ applied.diff = << MapField(6, << KeyDiff(<< "1" >>, StrSV(<< "u" >>)) >>) >>
    /\ EntriesOf(state, 6) = << << Str(<< "1" >>), Str(<< "u" >>) >>,
                                << Str(<< "2" >>), Str(<< "w" >>) >>,
                                << Str(<< "b" >>), Str(<< "v" >>) >> >>

(* C40: a field operation that names a known field and carries none of     *)
(* set, repeated, map and clear leaves the target record as it was, the    *)
(* active case of its oneof group included.                                *)
C40_NoOperationChangesNothing ==
    [][ (/\ act' = "apply"
         /\ Len(applied'.diff) = 1
         /\ applied'.diff[1].case = "") => (applied'.ok /\ state' = state) ]_vars

====
